---------------------------- MODULE Spec2Model ----------------------------
(***************************************************************************)
(* Clearnet custodian: the in-process simulator mockchain.VaultContract    *)
(* (Go) and the settlement-layer Vault contract (Solidity), modelled as    *)
(* two implementations of the same port (ports.BlockchainAdapter).         *)
(* Every run binds one implementation (variable adapter) and drives it     *)
(* with calls whose arguments are drawn from small sets.                   *)
(***************************************************************************)
EXTENDS Integers, Sequences, FiniteSets, TLC

(***************************************************************************)
(* Bounds of the model.                                                    *)
(***************************************************************************)
MaxTime == 2
MaxHeight == 2
MaxAmount == 2
\* the events followed through the event bus in one run
MaxEvents == 3
\* the buffer of vc.eventBus (100 in NewVaultContract)
BusCap == 2
\* the buffer of a subscriber's channel (100 in Subscribe)
SubscriberCap == 1
\* the calls of PublishState in one run
MaxPublished == 2
\* the number of bits of a uint64 (64 in the program)
UintBitSize == 3

(***************************************************************************)
(* Program constants.                                                      *)
(***************************************************************************)
\* VaultContract.ChallengePeriod / Vault.CHALLENGE_PERIOD, in clock ticks
ChallengePeriod == 1
CHALLENGE_PERIOD == ChallengePeriod
\* quorum size the clients collect and the protocol requires (demo: Quorum = 3)
Quorum == 3

Nil == "nil"
Wallets == {"alice", "bob"}
\* address(0) designates the native asset
NativeToken == "0x0"
Tokens == {"USDT"}
Nodes == {"N0", "N1"}
\* the deployer of the Vault contract
Owner == "owner"
\* what ecrecover yields for a signature not made over this snapshot's digest
Forged == "forged"
\* a signature that is not 65 bytes long
Short == "short"

Heights == 1..MaxHeight
Amounts == 0..MaxAmount

(***************************************************************************)
(* core.State: a snapshot.  Sigs[i] is abstracted to the identity that     *)
(* signature i verifies for over this snapshot's digest (a node id), or    *)
(* Forged when it verifies for nobody.                                     *)
(***************************************************************************)
ParticipantLists == {<<>>, <<"N0">>, <<"N0", "N1">>}

Front(s) == SubSeq(s, 1, Len(s) - 1)
Rev(s) == [i \in 1..Len(s) |-> s[Len(s) + 1 - i]]

\* the signature arrays a caller may attach to a participant list: aligned,
\* last one missing, positions swapped, first one bad (forged for a single
\* participant, of the wrong length for several)
SigLists(p) ==
    {p}
    \cup (IF Len(p) > 0
          THEN {Front(p), Rev(p), [p EXCEPT ![1] = IF Len(p) = 1 THEN Forged ELSE Short]}
          ELSE {})

State(w, t, v, b, p, s) ==
    [Wallet |-> w, Token |-> t, Version |-> v, Balance |-> b,
     Participants |-> p, Sigs |-> s]

\* State.Hash: the digest of a snapshot, a collision-free function of wallet,
\* token, version, balance and the participants in their order (not of Sigs)
Hash(s) == <<s.Wallet, s.Token, s.Version, s.Balance, s.Participants>>

\* the hash functions: free of collisions, and no digest of one is a digest of
\* the other
sha256(bytes) == [alg |-> "sha256", of |-> bytes]
keccak256(bytes) == [alg |-> "keccak256", of |-> bytes]

\* fmt.Sprintf("%s:%s:%d:%s:%s", ...) in State.Hash: the fields as text,
\* the participants joined by commas
Sprintf(s) == [text |-> <<s.Wallet, s.Token, s.Version, s.Balance, s.Participants>>]

\* abi.encode(wallet, token, height, balance, participants): the fields as
\* 32-byte words, the array behind its offset and length
abiEncode(s) ==
    [words |-> <<s.Wallet, s.Token, s.Version, s.Balance,
                 Len(s.Participants), s.Participants>>]

\* the hex digest State.Hash returns
HashHex(s) == sha256(Sprintf(s))

\* stateHash in Vault._verifyStateSignatures
stateHash(s) == keccak256(abiEncode(s))

\* a participant list naming one node twice, each entry with its signature
Twice == <<"N0", "N0">>

\* the snapshots of wallet w the calls are drawn from: every height, balance
\* and participant list with its signatures aligned, and, on the snapshots of
\* balance 1, every defect of the signature array and the doubled participant
SnapshotsOf(w) ==
    {State(w, t, v, b, p, p) :
        t \in Tokens, v \in Heights, b \in 1..MaxAmount, p \in ParticipantLists}
    \cup UNION {{State(w, t, v, 1, p, s) :
                    t \in Tokens, v \in Heights, s \in SigLists(p)} :
                p \in ParticipantLists}
    \cup {State(w, t, v, 1, Twice, Twice) : t \in Tokens, v \in Heights}

Snapshots == UNION {SnapshotsOf(w) : w \in Wallets}

\* the snapshots of one channel, the calls of the main specification
AliceSnapshots == SnapshotsOf("alice")

\* the snapshots of that channel that carry their participants' signatures
AliceSigned == {x \in AliceSnapshots : x.Sigs = x.Participants}

Range(s) == {s[i] : i \in 1..Len(s)}

\* Go maps: a function on the keys present
Put(m, k, v) == [x \in (DOMAIN m) \cup {k} |-> IF x = k THEN v ELSE m[x]]
Delete(m, k) == [x \in (DOMAIN m) \ {k} |-> m[x]]
Has(m, k) == k \in DOMAIN m

VARIABLES
    adapter,          \* which implementation of ports.BlockchainAdapter runs
    now,              \* the clock: time.Now() / block.timestamp
    balances,         \* VaultContract.balances: map wallet -> custody
    pendingRequests,  \* VaultContract.pendingRequests: map wallet -> State
    requestTime,      \* VaultContract.requestTime: map wallet -> time of the request
    nodeRegistry,     \* VaultContract.nodeRegistry: the node ids mapped to true
    isNode,           \* Vault.isNode: the addresses mapped to true
    requests,         \* Vault.requests: wallet -> WithdrawalRequestData
    held,             \* the assets the Vault contract holds, per token
    eventBus,         \* VaultContract.eventBus: the events sent and not yet taken
    subscribers,      \* VaultContract.subscribers: the channel of each subscriber
    mu,               \* the call that holds vc.mu while it waits at vc.eventBus <- event, if any
    inHand,           \* the event dispatch took from eventBus and has not delivered, if any
    sent,             \* the events in the order the calls sent them (history)
    received,         \* what the reader of each subscriber's channel took (history)
    store,            \* Node.store of each subscribed node: map wallet -> State
    deliveries,       \* the deliveries MockP2P.PublishState started: node, snapshot, done or not
    calling,          \* the snapshot each node is about to pass to chain.Challenge, if any
    nodes,            \* Registry.nodes: operator -> NodeRecord
    activeNodes,      \* Registry.activeNodes: the operators listed, in list order
    nodeIdUsed,       \* Registry.nodeIdUsed: the node ids mapped to true
    nodeIdToOwner,    \* Registry.nodeIdToOwner: node id -> operator
    yellowToken,      \* the stake token: balance of each operator and of the Registry
    mNodes,           \* MockRegistry.nodes: hex node id -> NodeInfo
    mActiveNodes,     \* MockRegistry.activeNodes: the hex node ids, in list order
    last              \* the latest step: operation, wallet, error returned, events published

eventVars == <<eventBus, subscribers, inHand, sent, received, mu>>
nodeVars == <<store, calling, deliveries>>
goVars == <<balances, pendingRequests, requestTime, nodeRegistry, eventVars, nodeVars>>
solVars == <<isNode, requests, held>>
regVars == <<nodes, activeNodes, nodeIdUsed, nodeIdToOwner, yellowToken, mNodes, mActiveNodes>>
vars == <<adapter, now, goVars, solVars, regVars, last>>

Ret(op, w, err, evs) == [op |-> op, wallet |-> w, err |-> err, events |-> evs]

\* the zero value of WithdrawalRequestData (an unset or deleted mapping entry)
NoRequest == [amount |-> 0, expiration |-> 0, height |-> 0, token |-> NativeToken]

(***************************************************************************)
(* The node registry: contract Registry and its simulator MockRegistry.    *)
(***************************************************************************)
\* Registry.STAKE_AMOUNT in whole tokens (250_000 ether), and the stake
\* MockRegistry.Register asks for
STAKE_AMOUNT == 250000
\* Registry.COOLDOWN_PERIOD (7 days), in clock ticks
COOLDOWN_PERIOD == 2
\* what the tests mint to an operator, in whole tokens
Minted == 1000000

\* the addresses that call the Registry
Operators == {"alice", "bob", "charlie"}
\* the Registry contract's own address, and address(0)
RegistryAddress == "registry"
ZeroAddress == "0x0"
\* node ids (bytes32), and bytes32(0)
NodeIdHashes == {"id1", "id2", "id3"}
ZeroId == "0x00"
Domains == {"alice.node", "bob.node"}
Port == 9000

\* the zero value of NodeRecord (an unset or deleted mapping entry)
NoNode ==
    [index |-> 0, nodeId |-> ZeroId, operator |-> ZeroAddress, domain |-> "",
     port |-> 0, amount |-> 0, registredAt |-> 0, unlockAt |-> 0]

\* the stake token after the tests' setUp: alice and bob hold what was minted
\* to them, charlie holds c
Funding(c) ==
    [a \in Operators \cup {RegistryAddress} |->
        IF a \in {"alice", "bob"} THEN Minted ELSE IF a = "charlie" THEN c ELSE 0]

\* new Registry(token) / mockregistry.New(), charlie not funded
NewRegistry ==
    /\ nodes = [o \in Operators |-> NoNode]
    /\ activeNodes = <<>>
    /\ nodeIdUsed = {}
    /\ nodeIdToOwner = <<>>
    /\ yellowToken = Funding(0)
    /\ mNodes = <<>>
    /\ mActiveNodes = <<>>

Init ==
    /\ adapter \in {"simulated", "native"}
    /\ now = 0
    /\ balances = <<>>
    /\ pendingRequests = <<>>
    /\ requestTime = <<>>
    /\ nodeRegistry = {}
    /\ isNode = {}
    /\ requests = [w \in Wallets |-> NoRequest]
    /\ held = [t \in Tokens \cup {NativeToken} |-> 0]
    /\ eventBus = <<>>
    /\ subscribers = <<>>
    /\ inHand = <<>>
    /\ mu = <<>>
    /\ sent = <<>>
    /\ received = <<>>
    /\ store = <<>>
    /\ calling = <<>>
    /\ deliveries = <<>>
    /\ NewRegistry
    /\ last = Ret("new", Nil, Nil, <<>>)

\* a Go panic ends the process: no call follows it
Running == last.err # "panic"

(***************************************************************************)
(* The clock advances.                                                     *)
(***************************************************************************)
Tick ==
    /\ Running
    /\ now < MaxTime
    /\ now' = now + 1
    /\ last' = Ret("tick", Nil, Nil, <<>>)
    /\ UNCHANGED <<regVars, adapter, goVars, solVars>>

(***************************************************************************)
(* mockchain.VaultContract                                                 *)
(***************************************************************************)
\* vc.eventBus <- event, for the event of the call that last' describes. The
\* call holds vc.mu while it sends, so the events enter the bus in the order
\* the calls are accepted; seq is the position in that order. The send waits
\* while the bus is full. With no subscriber dispatch delivers to nobody and
\* the event is not followed.
Emit ==
    IF last'.events = <<>> \/ subscribers = <<>>
    THEN UNCHANGED eventVars
    ELSE /\ Len(sent) < MaxEvents
         /\ Len(eventBus) < BusCap
         /\ eventBus' = Append(eventBus, [seq |-> Len(sent) + 1,
                                          event |-> last'.events[1]])
         /\ sent' = Append(sent, last'.events[1])
         /\ mu' = <<>>
         /\ UNCHANGED <<subscribers, inHand, received>>

AddNode(nodeID) ==
    /\ Running /\ adapter = "simulated"
    /\ nodeRegistry' = nodeRegistry \cup {nodeID}
    /\ last' = Ret("AddNode", Nil, Nil, <<>>)
    /\ UNCHANGED <<regVars, adapter, now, balances, pendingRequests, requestTime, solVars, nodeVars>>
    /\ Emit

Deposit(wallet, token, amount) ==
    /\ Running /\ adapter = "simulated"
    /\ LET current == IF Has(balances, wallet) THEN balances[wallet] ELSE 0
       IN  /\ current + amount <= MaxAmount
           /\ balances' = Put(balances, wallet, current + amount)
    /\ last' = Ret("Deposit", wallet, Nil,
                   <<[Type |-> "Deposited", Wallet |-> wallet, Token |-> token,
                      Amount |-> amount]>>)
    /\ UNCHANGED <<regVars, adapter, now, pendingRequests, requestTime, nodeRegistry, solVars, nodeVars>>
    /\ Emit

\* the error RequestWithdrawal returns for state, Nil when it accepts
RequestWithdrawalErr(state) ==
    IF Len(state.Participants) = 0 THEN "no participants"
    ELSE IF \E i \in 1..Len(state.Participants) :
                state.Participants[i] \notin nodeRegistry
         THEN "unauthorized participant"
    ELSE Nil

\* RequestWithdrawal that starts the timer before it checks the participants
RequestWithdrawalTimerFirst(state) ==
    /\ Running /\ adapter = "simulated"
    /\ requestTime' = Put(requestTime, state.Wallet, now)
    /\ LET err == RequestWithdrawalErr(state)
       IN  IF err # Nil
           THEN /\ last' = Ret("RequestWithdrawal", state.Wallet, err, <<>>)
                /\ UNCHANGED pendingRequests
           ELSE /\ pendingRequests' = Put(pendingRequests, state.Wallet, state)
                /\ last' = Ret("RequestWithdrawal", state.Wallet, Nil,
                               <<[Type |-> "WithdrawalRequested", State |-> state]>>)
    /\ UNCHANGED <<regVars, adapter, now, balances, nodeRegistry, solVars, nodeVars>>
    /\ Emit

RequestWithdrawal(state) ==
    /\ Running /\ adapter = "simulated"
    /\ LET err == RequestWithdrawalErr(state)
       IN  IF err # Nil
           THEN /\ last' = Ret("RequestWithdrawal", state.Wallet, err, <<>>)
                /\ UNCHANGED <<pendingRequests, requestTime>>
           ELSE /\ pendingRequests' = Put(pendingRequests, state.Wallet, state)
                /\ requestTime' = Put(requestTime, state.Wallet, now)
                /\ last' = Ret("RequestWithdrawal", state.Wallet, Nil,
                               <<[Type |-> "WithdrawalRequested", State |-> state]>>)
    /\ UNCHANGED <<regVars, adapter, now, balances, nodeRegistry, solVars, nodeVars>>
    /\ Emit

\* Challenge's checks letting a candidate of the pending height through
ChallengeErrAllowsEqual(candidate) ==
    IF \E i \in 1..Len(candidate.Participants) :
           candidate.Participants[i] \notin nodeRegistry
    THEN "unauthorized participant"
    ELSE IF ~Has(pendingRequests, candidate.Wallet)
    THEN "no pending request to challenge"
    ELSE IF candidate.Version < pendingRequests[candidate.Wallet].Version
    THEN "challenge version is not newer"
    ELSE Nil

\* the error Challenge returns for candidate, Nil when it accepts
ChallengeErr(candidate) ==
    IF \E i \in 1..Len(candidate.Participants) :
           candidate.Participants[i] \notin nodeRegistry
    THEN "unauthorized participant"
    ELSE IF ~Has(pendingRequests, candidate.Wallet)
    THEN "no pending request to challenge"
    ELSE IF candidate.Version <= pendingRequests[candidate.Wallet].Version
    THEN "challenge version is not newer"
    ELSE Nil

\* the ids of the nodes, in the order they subscribe (Node.Start)
NodeIds == <<"N0", "N1">>

\* chain.Challenge returns to the node that called it, if a node did
Returned(challengerID) ==
    /\ calling' = [i \in DOMAIN calling |->
                      IF NodeIds[i] = challengerID THEN <<>> ELSE calling[i]]
    /\ UNCHANGED <<store, deliveries>>

\* Challenge that publishes Challenged but keeps the pending request
ChallengeKeepsPending(candidate, challengerID) ==
    /\ Running /\ adapter = "simulated"
    /\ LET err == ChallengeErr(candidate)
       IN  IF err # Nil
           THEN last' = Ret("Challenge", candidate.Wallet, err, <<>>)
           ELSE last' = Ret("Challenge", candidate.Wallet, Nil,
                            <<[Type |-> "Challenged", State |-> candidate,
                               Challenger |-> challengerID]>>)
    /\ UNCHANGED <<regVars, adapter, now, balances, pendingRequests, requestTime,
                   nodeRegistry, solVars>>
    /\ Returned(challengerID)
    /\ Emit

Challenge(candidate, challengerID) ==
    /\ Running /\ adapter = "simulated"
    /\ LET err == ChallengeErr(candidate)
       IN  IF err # Nil
           THEN /\ last' = Ret("Challenge", candidate.Wallet, err, <<>>)
                /\ UNCHANGED <<pendingRequests, requestTime>>
           ELSE /\ pendingRequests' = Delete(pendingRequests, candidate.Wallet)
                /\ requestTime' = Delete(requestTime, candidate.Wallet)
                /\ last' = Ret("Challenge", candidate.Wallet, Nil,
                               <<[Type |-> "Challenged", State |-> candidate,
                                  Challenger |-> challengerID]>>)
    /\ UNCHANGED <<regVars, adapter, now, balances, nodeRegistry, solVars>>
    /\ Returned(challengerID)
    /\ Emit

\* Withdraw with the window one tick short: it releases before expires_at
WithdrawErrEarly(wallet) ==
    IF ~Has(pendingRequests, wallet) THEN "no pending request"
    ELSE IF now - requestTime[wallet] < ChallengePeriod - 1
    THEN "challenge period not over"
    ELSE IF ~Has(balances, wallet) THEN "panic"
    ELSE Nil

\* the error Withdraw returns for wallet, Nil when it accepts; "panic" when
\* balances has no entry for the wallet (currentBal is a nil *big.Int and
\* currentBal.Cmp dereferences it)
WithdrawErr(wallet) ==
    IF ~Has(pendingRequests, wallet) THEN "no pending request"
    ELSE IF now - requestTime[wallet] < ChallengePeriod
    THEN "challenge period not over"
    ELSE IF ~Has(balances, wallet) THEN "panic"
    ELSE Nil

\* Withdraw that empties the wallet's custody instead of debiting the amount
WithdrawAll(wallet) ==
    /\ Running /\ adapter = "simulated"
    /\ LET err == WithdrawErr(wallet)
       IN  IF err # Nil
           THEN /\ last' = Ret("Withdraw", wallet, err, <<>>)
                /\ UNCHANGED <<balances, pendingRequests, requestTime>>
           ELSE /\ balances' = Put(balances, wallet, 0)
                /\ pendingRequests' = Delete(pendingRequests, wallet)
                /\ requestTime' = Delete(requestTime, wallet)
                /\ last' = Ret("Withdraw", wallet, Nil,
                               <<[Type |-> "Withdrawn", Wallet |-> wallet,
                                  Amount |-> pendingRequests[wallet].Balance]>>)
    /\ UNCHANGED <<regVars, adapter, now, nodeRegistry, solVars, nodeVars>>
    /\ Emit

Withdraw(wallet) ==
    /\ Running /\ adapter = "simulated"
    /\ LET err == WithdrawErr(wallet)
       IN  IF err # Nil
           THEN /\ last' = Ret("Withdraw", wallet, err, <<>>)
                /\ UNCHANGED <<balances, pendingRequests, requestTime>>
           ELSE LET amountToWithdraw == pendingRequests[wallet].Balance
                IN  /\ balances' = Put(balances, wallet,
                                       balances[wallet] - amountToWithdraw)
                    /\ pendingRequests' = Delete(pendingRequests, wallet)
                    /\ requestTime' = Delete(requestTime, wallet)
                    /\ last' = Ret("Withdraw", wallet, Nil,
                                   <<[Type |-> "Withdrawn", Wallet |-> wallet,
                                      Amount |-> amountToWithdraw]>>)
    /\ UNCHANGED <<regVars, adapter, now, nodeRegistry, solVars, nodeVars>>
    /\ Emit

(***************************************************************************)
(* The event bus of VaultContract: Subscribe, the dispatch goroutine and   *)
(* the readers of the subscribers' channels.                               *)
(***************************************************************************)
Subscribe ==
    /\ Running /\ adapter = "simulated"
    /\ Len(subscribers) < Cardinality(Nodes)
    /\ subscribers' = Append(subscribers, <<>>)
    /\ received' = Append(received, <<>>)
    /\ store' = Append(store, <<>>)
    /\ calling' = Append(calling, <<>>)
    /\ last' = Ret("Subscribe", Nil, Nil, <<>>)
    /\ UNCHANGED <<deliveries, mu, regVars, adapter, now, balances, pendingRequests, requestTime, nodeRegistry,
                   eventBus, inHand, sent, solVars>>

\* dispatch that takes the newest event of the bus instead of the oldest
TakeNewest ==
    /\ Running /\ adapter = "simulated"
    /\ inHand = <<>> /\ eventBus # <<>>
    /\ inHand' = <<eventBus[Len(eventBus)]>>
    /\ eventBus' = Front(eventBus)
    /\ last' = Ret("dispatch", Nil, Nil, <<>>)
    /\ UNCHANGED <<mu, regVars, adapter, now, balances, pendingRequests, requestTime, nodeRegistry,
                   subscribers, sent, received, solVars, nodeVars>>

\* dispatch: for event := range vc.eventBus, before it takes vc.mu
Take ==
    /\ Running /\ adapter = "simulated"
    /\ inHand = <<>> /\ eventBus # <<>>
    /\ inHand' = <<Head(eventBus)>>
    /\ eventBus' = Tail(eventBus)
    /\ last' = Ret("dispatch", Nil, Nil, <<>>)
    /\ UNCHANGED <<mu, regVars, adapter, now, balances, pendingRequests, requestTime, nodeRegistry,
                   subscribers, sent, received, solVars, nodeVars>>

\* dispatch that waits until every subscriber's channel has room
DeliverWaits ==
    /\ Running /\ adapter = "simulated"
    /\ inHand # <<>>
    /\ \A i \in DOMAIN subscribers : Len(subscribers[i]) < SubscriberCap
    /\ subscribers' = [i \in DOMAIN subscribers |-> Append(subscribers[i], inHand[1])]
    /\ inHand' = <<>>
    /\ last' = Ret("dispatch", Nil, Nil, <<>>)
    /\ UNCHANGED <<mu, regVars, adapter, now, balances, pendingRequests, requestTime, nodeRegistry,
                   eventBus, sent, received, solVars, nodeVars>>

\* dispatch: under vc.mu, the send without waiting to every subscriber; a
\* subscriber whose channel is full misses the event
Deliver ==
    /\ Running /\ adapter = "simulated"
    /\ inHand # <<>>
    /\ subscribers' = [i \in DOMAIN subscribers |->
                          IF Len(subscribers[i]) < SubscriberCap
                          THEN Append(subscribers[i], inHand[1])
                          ELSE subscribers[i]]
    /\ inHand' = <<>>
    /\ last' = Ret("dispatch", Nil, Nil, <<>>)
    /\ UNCHANGED <<mu, regVars, adapter, now, balances, pendingRequests, requestTime, nodeRegistry,
                   eventBus, sent, received, solVars, nodeVars>>

\* the deliveries once the goroutine of PublishState that hands state to node
\* i has returned from OnNewState: the oldest such delivery still under way
\* is done; a call that came by no delivery leaves them as they are
Pending(i, state) ==
    {k \in DOMAIN deliveries :
        /\ deliveries[k].node = i
        /\ deliveries[k].state = state
        /\ ~deliveries[k].done}

Completed(i, state) ==
    IF Pending(i, state) = {} THEN deliveries
    ELSE LET k == CHOOSE x \in Pending(i, state) : \A y \in Pending(i, state) : x <= y
         IN  [deliveries EXCEPT ![k].done = TRUE]

\* OnNewState's test for a snapshot that is not newer than the stored one,
\* taking one of the stored height for newer
StaleIfLower(current, state) == current.Version > state.Version

\* OnNewState's test for a snapshot that is not newer than the stored one
Stale(current, state) == current.Version >= state.Version

\* OnNewState that stores whatever arrives
OnNewStateAny(i, state) ==
    /\ Running /\ adapter = "simulated"
    /\ i \in DOMAIN store
    /\ store' = [store EXCEPT ![i] = Put(@, state.Wallet, state)]
    /\ last' = [op |-> "OnNewState", wallet |-> state.Wallet, err |-> Nil,
                events |-> <<>>, node |-> i, state |-> state]
    /\ deliveries' = Completed(i, state)
    /\ UNCHANGED <<regVars, adapter, now, balances, pendingRequests, requestTime, nodeRegistry,
                   eventVars, calling, solVars>>

\* Node.OnNewState of node i, under n.mu
OnNewState(i, state) ==
    /\ Running /\ adapter = "simulated"
    /\ i \in DOMAIN store
    /\ IF Has(store[i], state.Wallet) /\ Stale(store[i][state.Wallet], state)
       THEN UNCHANGED store
       ELSE store' = [store EXCEPT ![i] = Put(@, state.Wallet, state)]
    /\ last' = [op |-> "OnNewState", wallet |-> state.Wallet, err |-> Nil,
                events |-> <<>>, node |-> i, state |-> state]
    /\ deliveries' = Completed(i, state)
    /\ UNCHANGED <<regVars, adapter, now, balances, pendingRequests, requestTime, nodeRegistry,
                   eventVars, calling, solVars>>

\* Node.handleWithdrawalRequest of node i: the snapshot it challenges with,
\* none when it has no snapshot of the wallet or none that is newer
handleWithdrawalRequest(i, reqState) ==
    IF ~Has(store[i], reqState.Wallet) THEN <<>>
    ELSE IF store[i][reqState.Wallet].Version > reqState.Version
         THEN <<store[i][reqState.Wallet]>>
         ELSE <<>>

\* Node.handleBlockchainEvents of node i takes the next event of its channel;
\* a WithdrawalRequested goes to handleWithdrawalRequest, the others change
\* nothing
Receive(i) ==
    /\ Running /\ adapter = "simulated"
    /\ i \in DOMAIN subscribers /\ subscribers[i] # <<>>
    /\ calling[i] = <<>>
    /\ received' = [received EXCEPT ![i] = Append(@, Head(subscribers[i]))]
    /\ subscribers' = [subscribers EXCEPT ![i] = Tail(@)]
    /\ LET evt == Head(subscribers[i]).event
       IN  calling' = [calling EXCEPT ![i] =
                          IF evt.Type = "WithdrawalRequested"
                          THEN handleWithdrawalRequest(i, evt.State)
                          ELSE <<>>]
    /\ last' = Ret("receive", Nil, Nil, <<>>)
    /\ UNCHANGED <<mu, regVars, adapter, now, balances, pendingRequests, requestTime, nodeRegistry,
                   eventBus, inHand, sent, store, deliveries, solVars>>

\* a node that detects the fraud and then gives up its call of chain.Challenge
NodeChallengeForgets(i) ==
    /\ Running /\ adapter = "simulated"
    /\ i \in DOMAIN calling /\ calling[i] # <<>>
    /\ calling' = [calling EXCEPT ![i] = <<>>]
    /\ last' = Ret("forget", calling[i][1].Wallet, Nil, <<>>)
    /\ UNCHANGED <<regVars, adapter, now, balances, pendingRequests, requestTime, nodeRegistry,
                   eventVars, store, deliveries, solVars>>

\* node i's call n.chain.Challenge(localState, n.ID)
NodeChallenge(i) ==
    /\ i \in DOMAIN calling /\ calling[i] # <<>>
    /\ Challenge(calling[i][1], NodeIds[i])

(***************************************************************************)
(* contract Vault                                                          *)
(***************************************************************************)
setNodeStatus(sender, node, status) ==
    /\ adapter = "native"
    /\ IF sender # Owner
       THEN /\ last' = Ret("setNodeStatus", Nil, "Not owner", <<>>)
            /\ UNCHANGED isNode
       ELSE /\ isNode' = IF status THEN isNode \cup {node} ELSE isNode \ {node}
            /\ last' = Ret("setNodeStatus", Nil, Nil, <<>>)
    /\ UNCHANGED <<regVars, adapter, now, goVars, requests, held>>

\* the revert reason of deposit, Nil when it succeeds; transferOK is whether
\* the token contract carries out transferFrom
depositErr(token, amount, value, transferOK) ==
    IF token = NativeToken
    THEN IF value # amount THEN "Invalid ETH amount" ELSE Nil
    ELSE IF value # 0 THEN "No ETH allowed for ERC20 deposit"
    ELSE IF ~transferOK THEN "ERC20 transfer failed"
    ELSE Nil

deposit(account, token, amount, value, transferOK) ==
    /\ adapter = "native"
    /\ LET err == depositErr(token, amount, value, transferOK)
       IN  IF err # Nil
           THEN /\ last' = Ret("deposit", account, err, <<>>)
                /\ UNCHANGED held
           ELSE /\ held[token] + amount <= MaxAmount
                /\ held' = [held EXCEPT ![token] = held[token] + amount]
                /\ last' = Ret("deposit", account, Nil,
                               <<[Type |-> "Deposited", Wallet |-> account,
                                  Token |-> token, Amount |-> amount]>>)
    /\ UNCHANGED <<regVars, adapter, now, goVars, isNode, requests>>

\* the loop of _verifyStateSignatures without its isNode check
BadPositionsNoRegistry(state) ==
    {i \in 1..Len(state.Participants) :
        \/ state.Sigs[i] = Short
        \/ state.Sigs[i] # state.Participants[i]}

\* the positions of state at which a check of _verifyStateSignatures' loop fails
BadPositions(state) ==
    {i \in 1..Len(state.Participants) :
        \/ state.Participants[i] \notin isNode
        \/ state.Sigs[i] = Short
        \/ state.Sigs[i] # state.Participants[i]}

\* the revert reason of _verifyStateSignatures, Nil when it returns
verifyStateSignaturesErr(state) ==
    IF Len(state.Sigs) # Len(state.Participants) THEN "Sig length mismatch"
    ELSE IF Len(state.Participants) = 0 THEN "No participants"
    ELSE IF BadPositions(state) = {} THEN Nil
    ELSE LET i == CHOOSE j \in BadPositions(state) :
                      \A k \in BadPositions(state) : j <= k
         IN  IF state.Participants[i] \notin isNode THEN "Unauthorized participant"
             ELSE IF state.Sigs[i] = Short THEN "Invalid signature length"
             ELSE "Invalid signature"

\* request without its check of the amount against the balance of the candidate
requestErrAnyAmount(sender, candidate, amount) ==
    IF sender # candidate.Wallet THEN "Not wallet owner"
    ELSE IF requests[sender].expiration # 0 THEN "Request already pending"
    ELSE verifyStateSignaturesErr(candidate)

\* the revert reason of request, Nil when it succeeds
requestErr(sender, candidate, amount) ==
    IF sender # candidate.Wallet THEN "Not wallet owner"
    ELSE IF amount > candidate.Balance THEN "Withdrawal exceeds state balance"
    ELSE IF requests[sender].expiration # 0 THEN "Request already pending"
    ELSE verifyStateSignaturesErr(candidate)

request(sender, candidate, amount) ==
    /\ adapter = "native"
    /\ LET err == requestErr(sender, candidate, amount)
           expiration == now + CHALLENGE_PERIOD
       IN  IF err # Nil
           THEN /\ last' = Ret("request", candidate.Wallet, err, <<>>)
                /\ UNCHANGED requests
           ELSE /\ requests' = [requests EXCEPT ![sender] =
                                   [amount |-> amount, expiration |-> expiration,
                                    height |-> candidate.Version,
                                    token |-> candidate.Token]]
                /\ last' = Ret("request", candidate.Wallet, Nil,
                               <<[Type |-> "Requested", Wallet |-> candidate.Wallet,
                                  Token |-> candidate.Token, Amount |-> amount],
                                 [Type |-> "Challenged", Wallet |-> candidate.Wallet,
                                  State |-> candidate, Expiration |-> expiration]>>)
    /\ UNCHANGED <<regVars, adapter, now, goVars, isNode, held>>

\* challenge with a deadline: it refuses once the request's window has elapsed
challengeErrInWindow(sender, candidate) ==
    LET req == requests[candidate.Wallet]
    IN  IF ~(req.expiration > 0) THEN "No pending request"
        ELSE IF ~(now < req.expiration) THEN "Challenge period expired"
        ELSE IF ~(candidate.Version > req.height) THEN "Candidate state not newer"
        ELSE IF ~(candidate.Wallet = sender \/ sender \in isNode)
        THEN "Only owner or node can challenge"
        ELSE verifyStateSignaturesErr(candidate)

\* the revert reason of challenge, Nil when it succeeds
challengeErr(sender, candidate) ==
    LET req == requests[candidate.Wallet]
    IN  IF ~(req.expiration > 0) THEN "No pending request"
        ELSE IF ~(candidate.Version > req.height) THEN "Candidate state not newer"
        ELSE IF ~(candidate.Wallet = sender \/ sender \in isNode)
        THEN "Only owner or node can challenge"
        ELSE verifyStateSignaturesErr(candidate)

challenge(sender, candidate) ==
    /\ adapter = "native"
    /\ LET err == challengeErr(sender, candidate)
           req == requests[candidate.Wallet]
       IN  IF err # Nil
           THEN /\ last' = Ret("challenge", candidate.Wallet, err, <<>>)
                /\ UNCHANGED requests
           ELSE /\ requests' = [requests EXCEPT ![candidate.Wallet] = NoRequest]
                /\ last' = Ret("challenge", candidate.Wallet, Nil,
                               <<[Type |-> "Rejected", Wallet |-> candidate.Wallet,
                                  Token |-> req.token, Amount |-> req.amount]>>)
    /\ UNCHANGED <<regVars, adapter, now, goVars, isNode, held>>

\* the revert reason of withdraw, Nil when it succeeds; transferOK is whether
\* the recipient or the token contract accepts the transfer
withdrawErr(finalize, transferOK) ==
    LET req == requests[finalize.Wallet]
    IN  IF ~(req.expiration > 0) THEN "No pending request"
        ELSE IF ~(now >= req.expiration) THEN "Challenge period not expired"
        ELSE IF finalize.Version # req.height THEN "State mismatch"
        ELSE IF ~(transferOK /\ held[req.token] >= req.amount)
        THEN IF req.token = NativeToken THEN "ETH transfer failed"
             ELSE "ERC20 transfer failed"
        ELSE Nil

\* withdraw whose failed transfer does not revert the deletion of the request
withdrawNoRevert(finalize, transferOK) ==
    /\ adapter = "native"
    /\ LET err == withdrawErr(finalize, transferOK)
           req == requests[finalize.Wallet]
       IN  IF err \in {"No pending request", "Challenge period not expired",
                       "State mismatch"}
           THEN /\ last' = Ret("withdraw", finalize.Wallet, err, <<>>)
                /\ UNCHANGED <<requests, held>>
           ELSE IF err # Nil
           THEN /\ requests' = [requests EXCEPT ![finalize.Wallet] = NoRequest]
                /\ last' = Ret("withdraw", finalize.Wallet, err, <<>>)
                /\ UNCHANGED held
           ELSE /\ requests' = [requests EXCEPT ![finalize.Wallet] = NoRequest]
                /\ held' = [held EXCEPT ![req.token] = held[req.token] - req.amount]
                /\ last' = Ret("withdraw", finalize.Wallet, Nil,
                               <<[Type |-> "Withdrawn", Wallet |-> finalize.Wallet,
                                  Token |-> req.token, Amount |-> req.amount]>>)
    /\ UNCHANGED <<regVars, adapter, now, goVars, isNode>>

withdraw(finalize, transferOK) ==
    /\ adapter = "native"
    /\ LET err == withdrawErr(finalize, transferOK)
           req == requests[finalize.Wallet]
       IN  IF err # Nil
           THEN /\ last' = Ret("withdraw", finalize.Wallet, err, <<>>)
                /\ UNCHANGED <<requests, held>>
           ELSE /\ requests' = [requests EXCEPT ![finalize.Wallet] = NoRequest]
                /\ held' = [held EXCEPT ![req.token] = held[req.token] - req.amount]
                /\ last' = Ret("withdraw", finalize.Wallet, Nil,
                               <<[Type |-> "Withdrawn", Wallet |-> finalize.Wallet,
                                  Token |-> req.token, Amount |-> req.amount]>>)
    /\ UNCHANGED <<regVars, adapter, now, goVars, isNode>>

(***************************************************************************)
(* The main specification: one implementation, the calls of one channel.   *)
(***************************************************************************)
Next ==
    \/ Tick
    \/ \E n \in Nodes : AddNode(n)
    \/ \E t \in Tokens, a \in Amounts : Deposit("alice", t, a)
    \/ \E s \in AliceSnapshots : RequestWithdrawal(s)
    \/ \E s \in AliceSnapshots : Challenge(s, "N1")
    \/ Withdraw("alice")
    \/ \E c \in {Owner, "alice"}, n \in Nodes, b \in BOOLEAN : setNodeStatus(c, n, b)
    \/ \E t \in Tokens, a \in Amounts, v \in {0, 1}, ok \in BOOLEAN :
          deposit("alice", t, a, v, ok)
    \/ \E s \in AliceSnapshots, a \in 1..MaxAmount : request("alice", s, a)
    \/ \E s \in AliceSigned : request("bob", s, 1)
    \/ \E s \in AliceSnapshots : challenge("N1", s)
    \/ \E c \in Wallets, s \in AliceSigned : challenge(c, s)
    \/ \E s \in AliceSigned, ok \in BOOLEAN : withdraw(s, ok)

Spec == Init /\ [][Next]_vars

(***************************************************************************)
(* Two channels side by side: both wallets deposit, request and withdraw   *)
(* on snapshots of one height signed by one node.                          *)
(***************************************************************************)
FrameSnapshots ==
    {State(w, t, 1, b, <<"N0">>, <<"N0">>) :
        w \in Wallets, t \in Tokens, b \in 1..MaxAmount}

NextFrame ==
    \/ Tick
    \/ AddNode("N0")
    \/ \E w \in Wallets, t \in Tokens, a \in 1..MaxAmount : Deposit(w, t, a)
    \/ \E s \in FrameSnapshots : RequestWithdrawal(s)
    \/ \E w \in Wallets : Withdraw(w)
    \/ setNodeStatus(Owner, "N0", TRUE)
    \/ \E w \in Wallets, t \in Tokens, a \in 1..MaxAmount : deposit(w, t, a, 0, TRUE)
    \/ \E s \in FrameSnapshots, a \in 1..MaxAmount : request(s.Wallet, s, a)
    \/ \E s \in FrameSnapshots : withdraw(s, TRUE)

SpecFrame == Init /\ [][NextFrame]_vars

(***************************************************************************)
(* The simulator with its event bus followed: a node has subscribed (as    *)
(* Node.Start does) before the calls begin, the other may join. Every node *)
(* subscribes once.                                                        *)
(***************************************************************************)
InitEvents ==
    /\ adapter = "simulated"
    /\ now = 0
    /\ balances = <<>>
    /\ pendingRequests = <<>>
    /\ requestTime = <<>>
    /\ nodeRegistry = {}
    /\ isNode = {}
    /\ requests = [w \in Wallets |-> NoRequest]
    /\ held = [t \in Tokens \cup {NativeToken} |-> 0]
    /\ eventBus = <<>>
    /\ subscribers = << <<>> >>
    /\ inHand = <<>>
    /\ mu = <<>>
    /\ sent = <<>>
    /\ received = << <<>> >>
    /\ store = << <<>> >>
    /\ calling = << <<>> >>
    /\ deliveries = <<>>
    /\ NewRegistry
    /\ last = Ret("new", Nil, Nil, <<>>)

EventSnapshots == {State("alice", t, v, 1, <<"N0">>, <<"N0">>) : t \in Tokens, v \in Heights}

NextEvents ==
    \/ AddNode("N0")
    \/ \E t \in Tokens : Deposit("alice", t, 1)
    \/ \E s \in EventSnapshots : RequestWithdrawal(s)
    \/ \E s \in EventSnapshots : Challenge(s, "N0")
    \/ Subscribe
    \/ Take
    \/ Deliver
    \/ \E i \in DOMAIN subscribers : Receive(i)

SpecEvents == InitEvents /\ [][NextEvents]_vars

(***************************************************************************)
(* The simulator with one subscribed node that keeps a snapshot store,     *)
(* watches the withdrawal requests and challenges the stale ones.          *)
(***************************************************************************)
NodeSnapshots ==
    {State("alice", t, v, b, <<"N0">>, <<"N0">>) :
        t \in Tokens \cup {NativeToken}, v \in Heights, b \in {1, MaxAmount}}

NextNode ==
    \/ AddNode("N0")
    \/ \E s \in EventSnapshots : RequestWithdrawal(s)
    \/ \E s \in NodeSnapshots : OnNewState(1, s)
    \/ Take
    \/ Deliver
    \/ Receive(1)
    \/ NodeChallenge(1)

SpecNode == InitEvents /\ [][NextNode]_vars

\* the same node while alice requests with her first snapshot only: the store
\* is written by the deliveries and read by the node's handling of the requests
FirstSnapshot == State("alice", "USDT", 1, 1, <<"N0">>, <<"N0">>)

NextStore ==
    \/ AddNode("N0")
    \/ RequestWithdrawal(FirstSnapshot)
    \/ \E s \in NodeSnapshots : OnNewState(1, s)
    \/ Take
    \/ Deliver
    \/ Receive(1)
    \/ NodeChallenge(1)

SpecStore == InitEvents /\ [][NextStore]_vars

(***************************************************************************)
(* The fraud path of the demo: the nodes are registered and one has        *)
(* subscribed, alice has deposited; she publishes snapshots to the node,   *)
(* requests withdrawals and tries to withdraw while the dispatcher and the *)
(* node run. The dispatcher and the node are scheduled fairly; the calls   *)
(* of alice and the clock are not.                                         *)
(***************************************************************************)
InitFraud ==
    /\ adapter = "simulated"
    /\ now = 0
    /\ balances = Put(<<>>, "alice", MaxAmount)
    /\ pendingRequests = <<>>
    /\ requestTime = <<>>
    /\ nodeRegistry = {"N0"}
    /\ isNode = {}
    /\ requests = [w \in Wallets |-> NoRequest]
    /\ held = [t \in Tokens \cup {NativeToken} |-> 0]
    /\ eventBus = <<>>
    /\ subscribers = << <<>> >>
    /\ inHand = <<>>
    /\ mu = <<>>
    /\ sent = <<>>
    /\ received = << <<>> >>
    /\ store = << <<>> >>
    /\ calling = << <<>> >>
    /\ deliveries = <<>>
    /\ NewRegistry
    /\ last = Ret("new", Nil, Nil, <<>>)

\* alice stops requesting while the events followed leave room for one more
\* only: the challenge of the node
ClientRoom == Len(sent) < MaxEvents - 1

NextFraud ==
    \/ Tick
    \/ \E s \in EventSnapshots : OnNewState(1, s)
    \/ ClientRoom /\ \E s \in EventSnapshots : RequestWithdrawal(s)
    \/ ClientRoom /\ Withdraw("alice")
    \/ Take
    \/ Deliver
    \/ Receive(1)
    \/ NodeChallenge(1)

SpecFraud ==
    /\ InitFraud /\ [][NextFraud]_vars
    /\ WF_vars(Take) /\ WF_vars(Deliver)
    /\ WF_vars(Receive(1)) /\ WF_vars(NodeChallenge(1))

(***************************************************************************)
(* The two implementations side by side: the same calls go to the          *)
(* simulator and to the Vault contract, each keeping its own state, on one *)
(* clock.                                                                  *)
(***************************************************************************)
\* the next call goes to the other implementation
Switch ==
    /\ Running
    /\ adapter' = IF adapter = "simulated" THEN "native" ELSE "simulated"
    /\ last' = Ret("switch", Nil, Nil, <<>>)
    /\ UNCHANGED <<regVars, now, goVars, solVars>>

\* snapshots of alice's channel signed by node N0, with and without its signature
BothSnapshots ==
    {State("alice", t, v, 1, <<"N0">>, sg) :
        t \in Tokens, v \in Heights, sg \in {<<"N0">>, <<>>}}

NextBoth ==
    \/ Switch
    \/ Tick
    \/ AddNode("N0")
    \/ setNodeStatus(Owner, "N0", TRUE)
    \/ \E t \in Tokens : Deposit("alice", t, 1)
    \/ \E t \in Tokens : deposit("alice", t, 1, 0, TRUE)
    \/ \E s \in BothSnapshots : RequestWithdrawal(s)
    \/ \E s \in BothSnapshots : request("alice", s, s.Balance)
    \/ \E s \in BothSnapshots : Challenge(s, "N0")
    \/ \E s \in BothSnapshots : challenge("N0", s)
    \/ Withdraw("alice")
    \/ \E s \in BothSnapshots : withdraw(s, TRUE)

SpecBoth == Init /\ [][NextBoth]_vars

(***************************************************************************)
(* contract Registry                                                       *)
(***************************************************************************)
RegEvent(type, operator) == [Type |-> type, operator |-> operator]

\* the require chain of register: Nil when the call goes through
registerErrAnyId(sender, nodeId) ==
    IF nodes[sender].amount # 0 THEN "Already registered"
    ELSE IF yellowToken[sender] < STAKE_AMOUNT THEN "Insufficient stake"
    ELSE Nil

registerErr(sender, nodeId) ==
    IF nodeId \in nodeIdUsed THEN "Node ID already used"
    ELSE IF nodes[sender].amount # 0 THEN "Already registered"
    ELSE IF yellowToken[sender] < STAKE_AMOUNT THEN "Insufficient stake"
    ELSE Nil

\* function register(bytes32 nodeId, string domain, uint16 port), msg.sender = sender
Registry_register(sender, nodeId, domain, port) ==
    /\ adapter = "native"
    /\ LET err == registerErr(sender, nodeId) IN
         /\ last' = Ret("Registry.register", sender, err,
                        IF err = Nil THEN <<RegEvent("NodeRegistered", sender)>> ELSE <<>>)
         /\ IF err = Nil
            THEN /\ yellowToken' = [yellowToken EXCEPT
                                       ![sender] = @ - STAKE_AMOUNT,
                                       ![RegistryAddress] = @ + STAKE_AMOUNT]
                 /\ nodeIdUsed' = nodeIdUsed \cup {nodeId}
                 /\ nodeIdToOwner' = Put(nodeIdToOwner, nodeId, sender)
                 /\ activeNodes' = Append(activeNodes, sender)
                 /\ nodes' = [nodes EXCEPT ![sender] =
                                 [index |-> Len(activeNodes), nodeId |-> nodeId,
                                  operator |-> sender, domain |-> domain, port |-> port,
                                  amount |-> STAKE_AMOUNT, registredAt |-> now,
                                  unlockAt |-> 0]]
            ELSE UNCHANGED <<yellowToken, nodeIdUsed, nodeIdToOwner, activeNodes, nodes>>
    /\ UNCHANGED <<adapter, now, goVars, solVars, mNodes, mActiveNodes>>

updateNodeErr(sender) ==
    IF nodes[sender].amount = 0 THEN "Not registered"
    ELSE IF nodes[sender].unlockAt # 0 THEN "In cooldown"
    ELSE Nil

\* function updateNode(string domain, uint16 port)
Registry_updateNode(sender, domain, port) ==
    /\ adapter = "native"
    /\ LET err == updateNodeErr(sender) IN
         /\ last' = Ret("Registry.updateNode", sender, err,
                        IF err = Nil THEN <<RegEvent("NodeUpdated", sender)>> ELSE <<>>)
         /\ IF err = Nil
            THEN nodes' = [nodes EXCEPT ![sender].domain = domain, ![sender].port = port]
            ELSE UNCHANGED nodes
    /\ UNCHANGED <<adapter, now, goVars, solVars, activeNodes, nodeIdUsed, nodeIdToOwner,
                   yellowToken, mNodes, mActiveNodes>>

\* activeNodes.length - 1 is checked arithmetic: on an empty list it reverts
unregisterErr(sender) ==
    IF nodes[sender].amount = 0 THEN "Not registered"
    ELSE IF nodes[sender].unlockAt # 0 THEN "Already unregistering"
    ELSE IF Len(activeNodes) = 0 THEN "Panic(0x11)"
    ELSE Nil

\* unregister that moves the last operator without updating its index
Registry_unregisterNoReindex(sender) ==
    /\ adapter = "native"
    /\ LET err == unregisterErr(sender)
           index == nodes[sender].index
           lastIndex == Len(activeNodes) - 1
           lastOperator == activeNodes[lastIndex + 1]
           swapped == IF index # lastIndex
                      THEN [activeNodes EXCEPT ![index + 1] = lastOperator]
                      ELSE activeNodes
           unlockTime == now + COOLDOWN_PERIOD
       IN
         /\ last' = Ret("Registry.unregister", sender, err,
                        IF err = Nil THEN <<RegEvent("NodeUnregistered", sender)>> ELSE <<>>)
         /\ IF err = Nil
            THEN /\ activeNodes' = Front(swapped)
                 /\ nodes' = [nodes EXCEPT ![sender].unlockAt = unlockTime]
            ELSE UNCHANGED <<activeNodes, nodes>>
    /\ UNCHANGED <<adapter, now, goVars, solVars, nodeIdUsed, nodeIdToOwner,
                   yellowToken, mNodes, mActiveNodes>>

\* function unregister(): swap and pop, then the cooldown starts
Registry_unregister(sender) ==
    /\ adapter = "native"
    /\ LET err == unregisterErr(sender)
           index == nodes[sender].index
           lastIndex == Len(activeNodes) - 1
           lastOperator == activeNodes[lastIndex + 1]
           swapped == IF index # lastIndex
                      THEN [activeNodes EXCEPT ![index + 1] = lastOperator]
                      ELSE activeNodes
           moved == IF index # lastIndex
                    THEN [nodes EXCEPT ![lastOperator].index = index]
                    ELSE nodes
           unlockTime == now + COOLDOWN_PERIOD
       IN
         /\ last' = Ret("Registry.unregister", sender, err,
                        IF err = Nil THEN <<RegEvent("NodeUnregistered", sender)>> ELSE <<>>)
         /\ IF err = Nil
            THEN /\ activeNodes' = Front(swapped)
                 /\ nodes' = [moved EXCEPT ![sender].unlockAt = unlockTime]
            ELSE UNCHANGED <<activeNodes, nodes>>
    /\ UNCHANGED <<adapter, now, goVars, solVars, nodeIdUsed, nodeIdToOwner,
                   yellowToken, mNodes, mActiveNodes>>

\* the require chain of withdraw
Registry_withdrawErrNoCooldown(sender) ==
    IF nodes[sender].unlockAt = 0 THEN "Not unregistering"
    ELSE IF nodes[sender].amount = 0 THEN "Nothing to withdraw"
    ELSE Nil

Registry_withdrawErr(sender) ==
    IF nodes[sender].unlockAt = 0 THEN "Not unregistering"
    ELSE IF now < nodes[sender].unlockAt THEN "Cooldown not ended"
    ELSE IF nodes[sender].amount = 0 THEN "Nothing to withdraw"
    ELSE Nil

\* function withdraw(): the record and the id are cleared, the stake goes back
Registry_withdraw(sender) ==
    /\ adapter = "native"
    /\ LET err == Registry_withdrawErr(sender)
           amount == nodes[sender].amount
           nodeId == nodes[sender].nodeId
       IN
         /\ last' = Ret("Registry.withdraw", sender, err,
                        IF err = Nil THEN <<RegEvent("CollateralWithdrawn", sender)>> ELSE <<>>)
         /\ IF err = Nil
            THEN /\ nodeIdUsed' = nodeIdUsed \ {nodeId}
                 /\ nodeIdToOwner' = Delete(nodeIdToOwner, nodeId)
                 /\ nodes' = [nodes EXCEPT ![sender] = NoNode]
                 /\ yellowToken' = [yellowToken EXCEPT
                                       ![sender] = @ + amount,
                                       ![RegistryAddress] = @ - amount]
            ELSE UNCHANGED <<nodeIdUsed, nodeIdToOwner, nodes, yellowToken>>
    /\ UNCHANGED <<adapter, now, goVars, solVars, activeNodes, mNodes, mActiveNodes>>

(***************************************************************************)
(* mockregistry.MockRegistry                                               *)
(***************************************************************************)
\* hex.EncodeToString(nodeID[:])
EncodeToString(nodeID) == <<"hex", nodeID>>
\* ports.NodeInfo as Register builds it; Address is Sprintf("%s:%d", domain, port)
NodeInfo(nodeID, domain, port) ==
    [Owner |-> "0xMockOwner", ID |-> nodeID, Address |-> <<domain, ":", port>>]

MockRegistry_RegisterErr(nodeID, stake) ==
    IF Has(mNodes, EncodeToString(nodeID)) THEN "node already registered"
    ELSE IF stake < STAKE_AMOUNT THEN "insufficient stake"
    ELSE Nil

\* func (m *MockRegistry) Register(ctx, nodeID, domain, port, stake)
MockRegistry_Register(nodeID, domain, port, stake) ==
    /\ Running /\ adapter = "simulated"
    /\ LET err == MockRegistry_RegisterErr(nodeID, stake)
           idStr == EncodeToString(nodeID)
       IN
         /\ last' = Ret("MockRegistry.Register", Nil, err, <<>>)
         /\ IF err = Nil
            THEN /\ mNodes' = Put(mNodes, idStr, NodeInfo(nodeID, domain, port))
                 /\ mActiveNodes' = Append(mActiveNodes, idStr)
            ELSE UNCHANGED <<mNodes, mActiveNodes>>
    /\ UNCHANGED <<adapter, now, goVars, solVars, nodes, activeNodes, nodeIdUsed,
                   nodeIdToOwner, yellowToken>>

\* UpdateNode, Unregister and Withdraw of the mock return nil and do nothing
MockRegistry_NoOp(op) ==
    /\ Running /\ adapter = "simulated"
    /\ last' = Ret(op, Nil, Nil, <<>>)
    /\ UNCHANGED <<adapter, now, goVars, solVars, regVars>>

MockRegistry_UpdateNode == MockRegistry_NoOp("MockRegistry.UpdateNode")
MockRegistry_Unregister == MockRegistry_NoOp("MockRegistry.Unregister")
MockRegistry_Withdraw == MockRegistry_NoOp("MockRegistry.Withdraw")

(***************************************************************************)
(* The registry driven alone, by the three operators of the tests; charlie *)
(* may or may not have been funded.                                        *)
(***************************************************************************)
InitRegistry ==
    /\ adapter \in {"simulated", "native"}
    /\ now = 0
    /\ balances = <<>>
    /\ pendingRequests = <<>>
    /\ requestTime = <<>>
    /\ nodeRegistry = {}
    /\ isNode = {}
    /\ requests = [w \in Wallets |-> NoRequest]
    /\ held = [t \in Tokens \cup {NativeToken} |-> 0]
    /\ eventBus = <<>>
    /\ subscribers = <<>>
    /\ inHand = <<>>
    /\ mu = <<>>
    /\ sent = <<>>
    /\ received = <<>>
    /\ store = <<>>
    /\ calling = <<>>
    /\ deliveries = <<>>
    /\ nodes = [o \in Operators |-> NoNode]
    /\ activeNodes = <<>>
    /\ nodeIdUsed = {}
    /\ nodeIdToOwner = <<>>
    /\ yellowToken \in {Funding(c) : c \in {0, Minted}}
    /\ mNodes = <<>>
    /\ mActiveNodes = <<>>
    /\ last = Ret("new", Nil, Nil, <<>>)

Stakes == {STAKE_AMOUNT - 1, STAKE_AMOUNT}
\* fewer ids than operators, so that operators compete for an id
ContestedIds == {"id1", "id2"}

NextRegistry ==
    \/ Tick
    \/ \E o \in Operators, id \in ContestedIds : Registry_register(o, id, "alice.node", Port)
    \/ \E o \in Operators : Registry_updateNode(o, "bob.node", Port)
    \/ \E o \in Operators : Registry_unregister(o)
    \/ \E o \in Operators : Registry_withdraw(o)
    \/ \E id \in NodeIdHashes, d \in Domains, st \in Stakes : MockRegistry_Register(id, d, Port, st)
    \/ MockRegistry_UpdateNode
    \/ MockRegistry_Unregister
    \/ MockRegistry_Withdraw

SpecRegistry == InitRegistry /\ [][NextRegistry]_vars

(***************************************************************************)
(* Pagination: MockRegistry.GetNodes and Registry.getActiveNodes.          *)
(***************************************************************************)
\* uint64 holds UintBitSize bits, uint256 four times as many
Uint64 == 0..(2^UintBitSize - 1)
MaxUint256 == 2^(4 * UintBitSize) - 1
\* uint64 arithmetic wraps
Wrap64(x) == (x + 2^UintBitSize) % (2^UintBitSize)
\* the largest capacity make() grants a slice of NodeInfo: the address space
\* holds fewer elements than uint64 counts; beyond it make panics
MaxCap == 2^(UintBitSize - 1)

\* func (m *MockRegistry) GetNodes(ctx, offset, limit uint64): what it returns
GetNodesResult(offset, limit) ==
    LET total == Len(mActiveNodes)
        sum == Wrap64(offset + limit)
        end == IF sum > total THEN total ELSE sum
        cap == Wrap64(end - offset)
    IN  IF offset >= total THEN [err |-> Nil, result |-> <<>>]
        ELSE IF cap > MaxCap THEN [err |-> "panic", result |-> <<>>]
        ELSE [err |-> Nil,
              result |-> IF end > offset
                         THEN [i \in 1..(end - offset) |-> mNodes[mActiveNodes[offset + i]]]
                         ELSE <<>>]

MockRegistry_GetNodes(offset, limit) ==
    /\ Running /\ adapter = "simulated"
    /\ LET r == GetNodesResult(offset, limit) IN
         last' = [op |-> "MockRegistry.GetNodes", wallet |-> Nil, err |-> r.err,
                  events |-> <<>>, offset |-> offset, limit |-> limit,
                  result |-> r.result]
    /\ UNCHANGED <<adapter, now, goVars, solVars, regVars>>

\* function getActiveNodes(uint256 offset, uint256 limit): offset + count is
\* checked arithmetic and reverts when it passes the uint256 range
getActiveNodesResult(offset, limit) ==
    LET total == Len(activeNodes)
        count == IF offset + limit > total THEN total - offset ELSE limit
    IN  IF offset >= total THEN [err |-> Nil, result |-> <<>>]
        ELSE IF offset + limit > MaxUint256 THEN [err |-> "Panic(0x11)", result |-> <<>>]
        ELSE [err |-> Nil,
              result |-> [i \in 1..count |-> nodes[activeNodes[offset + i]]]]

Registry_getActiveNodes(offset, limit) ==
    /\ adapter = "native"
    /\ LET r == getActiveNodesResult(offset, limit) IN
         last' = [op |-> "Registry.getActiveNodes", wallet |-> Nil, err |-> r.err,
                  events |-> <<>>, offset |-> offset, limit |-> limit,
                  result |-> r.result]
    /\ UNCHANGED <<adapter, now, goVars, solVars, regVars>>

\* the id each operator of testPagination registers
IdOf(o) == IF o = "alice" THEN "id1" ELSE IF o = "bob" THEN "id2" ELSE "id3"

\* the lists are built by register and unregister and read page by page, with
\* every offset and limit a uint64 holds
NextPages ==
    \/ \E o \in Operators, d \in Domains : Registry_register(o, IdOf(o), d, Port)
    \/ \E o \in Operators : Registry_unregister(o)
    \/ \E id \in NodeIdHashes : MockRegistry_Register(id, "alice.node", Port, STAKE_AMOUNT)
    \/ \E offset, limit \in Uint64 : MockRegistry_GetNodes(offset, limit)
    \/ \E offset, limit \in Uint64 : Registry_getActiveNodes(offset, limit)

SpecPages == InitRegistry /\ [][NextPages]_vars

(***************************************************************************)
(* vc.mu followed: a call sends its event while it holds vc.mu, and the    *)
(* send waits while the bus is full; dispatch takes an event from the bus  *)
(* first and vc.mu afterwards. Nothing reads what a call wrote before it   *)
(* releases vc.mu, so a call that waits is held at its entry (WaitsForBus) *)
(* and runs in one step once the bus has room (Resumes).                   *)
(***************************************************************************)
LockCalls ==
    {[op |-> "Deposit", wallet |-> "alice", token |-> t, amount |-> 1] : t \in Tokens}
    \cup {[op |-> "RequestWithdrawal", state |-> s] : s \in EventSnapshots}
    \cup {[op |-> "Challenge", state |-> s] : s \in EventSnapshots}
    \cup {[op |-> "Withdraw", wallet |-> "alice"]}

\* the call passes its checks and reaches vc.eventBus <- event
ReachesSend(call) ==
    CASE call.op = "Deposit" -> TRUE
      [] call.op = "RequestWithdrawal" -> RequestWithdrawalErr(call.state) = Nil
      [] call.op = "Challenge" -> ChallengeErr(call.state) = Nil
      [] call.op = "Withdraw" -> WithdrawErr(call.wallet) = Nil

RunCall(call) ==
    CASE call.op = "Deposit" -> Deposit(call.wallet, call.token, call.amount)
      [] call.op = "RequestWithdrawal" -> RequestWithdrawal(call.state)
      [] call.op = "Challenge" -> Challenge(call.state, "N0")
      [] call.op = "Withdraw" -> Withdraw(call.wallet)

\* vc.mu is not held by a waiting call
LockFree == mu = <<>>

\* a call takes vc.mu, passes its checks and finds the bus full
WaitsForBus(call) ==
    /\ Running /\ adapter = "simulated"
    /\ LockFree
    /\ subscribers # <<>>
    /\ Len(eventBus) >= BusCap
    /\ ReachesSend(call)
    /\ mu' = <<call>>
    /\ last' = Ret("wait", Nil, Nil, <<>>)
    /\ UNCHANGED <<regVars, adapter, now, balances, pendingRequests, requestTime, nodeRegistry,
                   eventBus, subscribers, inHand, sent, received, solVars, nodeVars>>

\* the bus has room again: the waiting call sends, returns and releases vc.mu
Resumes == mu # <<>> /\ RunCall(mu[1])

NextLock ==
    \/ Tick
    \/ LockFree /\ AddNode("N0")
    \/ \E c \in LockCalls : LockFree /\ RunCall(c)
    \/ \E c \in LockCalls : WaitsForBus(c)
    \/ Resumes
    \/ Take
    \/ LockFree /\ Deliver

SpecLock == InitEvents /\ [][NextLock]_vars

(***************************************************************************)
(* A node that is handed, over the peer network, every snapshot of alice's *)
(* channel a sender can build, well signed or not.                         *)
(***************************************************************************)
NextGossip ==
    \/ AddNode("N0")
    \/ \E s \in AliceSnapshots : OnNewState(1, s)

SpecGossip == InitEvents /\ [][NextGossip]_vars

(***************************************************************************)
(* mockp2p.MockP2P: the peer network that carries the snapshots.           *)
(***************************************************************************)
\* crc32.ChecksumIEEE([]byte(wallet)), kept to its low 31 bits
ChecksumIEEE(wallet) == IF wallet = "alice" THEN 663665735 ELSE 1976283456

\* p.nodeIDs: the ids of the nodes that started, sorted
RegisteredIds == SubSeq(NodeIds, 1, Len(subscribers))

\* GetQuorumNodes(wallet, k): k nodes along the ring from hash(wallet) % N,
\* as positions in p.nodeIDs; nil when no node is registered
GetQuorumNodes(wallet, k) ==
    IF Len(RegisteredIds) = 0 THEN <<>>
    ELSE LET idx == ChecksumIEEE(wallet) % Len(RegisteredIds)
         IN  [i \in 1..k |-> ((idx + i - 1) % Len(RegisteredIds)) + 1]

\* func (p *MockP2P) PublishState(state): one goroutine per quorum node, each
\* of which will call that node's OnNewState
PublishState(state) ==
    /\ Running /\ adapter = "simulated"
    /\ Len(deliveries) < Quorum * MaxPublished
    /\ LET targets == GetQuorumNodes(state.Wallet, Quorum)
       IN  deliveries' = deliveries \o
               [j \in 1..Len(targets) |->
                   [node |-> targets[j], state |-> state, done |-> FALSE]]
    /\ last' = Ret("PublishState", state.Wallet, Nil, <<>>)
    /\ UNCHANGED <<regVars, adapter, now, balances, pendingRequests, requestTime, nodeRegistry,
                   eventVars, store, calling, solVars>>

\* the goroutine of delivery k wakes up and calls handler.OnNewState(state)
Arrives(k) ==
    /\ k \in DOMAIN deliveries
    /\ ~deliveries[k].done
    /\ OnNewState(deliveries[k].node, deliveries[k].state)

\* the snapshots of one channel, forks of a height included
ChannelSnapshots ==
    {State("alice", "USDT", v, b, <<"N0">>, <<"N0">>) : v \in Heights, b \in {1, MaxAmount}}

NextPublish ==
    \/ Subscribe
    \/ \E s \in ChannelSnapshots : PublishState(s)
    \/ \E k \in DOMAIN deliveries : Arrives(k)

SpecPublish == InitEvents /\ [][NextPublish]_vars

\* Node.OnSignRequest of the node with id n.ID: the signature and the error
OnSignRequest(id, state) ==
    [sig |-> <<"sig", id, HashHex(state)>>, err |-> Nil]

\* func (p *MockP2P) RequestSignature(nodeID, state): the handler's answer, or
\* an error when no node is registered under nodeID
RequestSignature(nodeID, state) ==
    /\ Running /\ adapter = "simulated"
    /\ LET ok == nodeID \in Range(RegisteredIds)
           r == IF ok THEN OnSignRequest(nodeID, state)
                ELSE [sig |-> <<>>, err |-> "node not found"]
       IN  last' = [op |-> "RequestSignature", wallet |-> state.Wallet, err |-> r.err,
                    events |-> <<>>, node |-> nodeID, state |-> state, sig |-> r.sig]
    /\ UNCHANGED <<regVars, adapter, now, goVars, solVars>>

\* what a client may ask a node to sign: the snapshots of the channel, one
\* with a negative balance, one with its participants out of order
SignRequests ==
    ChannelSnapshots
    \cup {State("alice", "USDT", v, 0 - 1, <<"N0">>, <<>>) : v \in Heights}
    \cup {State("alice", "USDT", v, 1, <<"N1", "N0">>, <<>>) : v \in Heights}
    \cup {State("alice", "USDT", v, 1, <<"N0", "N1">>, <<>>) : v \in Heights}

NextSign ==
    \/ Subscribe
    \/ \E i \in DOMAIN store, s \in ChannelSnapshots : OnNewState(i, s)
    \/ \E id \in Nodes, s \in SignRequests : RequestSignature(id, s)

SpecSign == InitEvents /\ [][NextSign]_vars

(***************************************************************************)
(* Two nodes that hold snapshots of alice's channel watch her withdrawal   *)
(* request; each that holds a newer one calls chain.Challenge.             *)
(***************************************************************************)
NextRace ==
    \/ Subscribe
    \/ AddNode("N0")
    \/ RequestWithdrawal(FirstSnapshot)
    \/ \E i \in DOMAIN store, s \in EventSnapshots : OnNewState(i, s)
    \/ Take
    \/ Deliver
    \/ \E i \in DOMAIN subscribers : Receive(i)
    \/ \E i \in DOMAIN calling : NodeChallenge(i)

SpecRace == InitEvents /\ [][NextRace]_vars

(***************************************************************************)
(* Challenges against a request opened at time 0: the clock runs past the  *)
(* end of its window while the request is pending, and challenges arrive   *)
(* before and after it.                                                    *)
(***************************************************************************)
NextLate ==
    \/ Tick
    \/ AddNode("N0")
    \/ \E b \in BOOLEAN : setNodeStatus(Owner, "N0", b)
    \/ now = 0 /\ \E s \in BothSnapshots : RequestWithdrawal(s)
    \/ now = 0 /\ \E s \in BothSnapshots : request("alice", s, s.Balance)
    \/ \E s \in BothSnapshots : Challenge(s, "N0")
    \/ \E c \in {"N0", "alice", "bob"}, s \in BothSnapshots : challenge(c, s)
    \/ Withdraw("alice")
    \/ \E s \in BothSnapshots : withdraw(s, TRUE)

SpecLate == Init /\ [][NextLate]_vars

(***************************************************************************)
(* The callers keep the *core.State they passed.  RequestWithdrawal puts   *)
(* the pointer into vc.pendingRequests, PublishState hands one pointer to  *)
(* every quorum node and OnNewState puts it into n.store: what a caller    *)
(* assigns to its State afterwards is what the custodian and the nodes     *)
(* read.  The wallet requests before any node subscribes, so no event      *)
(* carries the pointer; the publisher publishes one State of its own.      *)
(***************************************************************************)
\* the wallet assigns to the Balance of the State it requested with
CallerWrites(wallet, balance) ==
    /\ Running /\ adapter = "simulated"
    /\ Has(pendingRequests, wallet)
    /\ pendingRequests' = [pendingRequests EXCEPT ![wallet].Balance = balance]
    /\ last' = Ret("write", wallet, Nil, <<>>)
    /\ UNCHANGED <<regVars, adapter, now, balances, requestTime, nodeRegistry,
                   eventVars, solVars, nodeVars>>

\* the values of the publisher's State: what the stores hold of it, and any
\* snapshot of the channel while no store holds it
PublishedState ==
    LET holders == {i \in DOMAIN store : Has(store[i], "alice")}
        stored == {store[i]["alice"] : i \in holders}
    IN  IF stored # {} THEN stored
        ELSE {State("alice", "USDT", v, 1, <<"N0">>, <<"N0">>) : v \in Heights}

\* the publisher assigns to the Version of the State it published
PublisherWrites(version) ==
    /\ Running /\ adapter = "simulated"
    /\ \E i \in DOMAIN store : Has(store[i], "alice")
    /\ store' = [i \in DOMAIN store |->
                    IF Has(store[i], "alice")
                    THEN [store[i] EXCEPT !["alice"].Version = version]
                    ELSE store[i]]
    /\ last' = Ret("write", "alice", Nil, <<>>)
    /\ UNCHANGED <<regVars, adapter, now, balances, pendingRequests, requestTime,
                   nodeRegistry, eventVars, solVars, calling, deliveries>>

NextAlias ==
    \/ Tick
    \/ AddNode("N0")
    \/ \E a \in Amounts : Deposit("alice", "USDT", a)
    \/ subscribers = <<>> /\ RequestWithdrawal(FirstSnapshot)
    \/ \E b \in Amounts : CallerWrites("alice", b)
    \/ Withdraw("alice")
    \/ Subscribe
    \/ \E i \in DOMAIN store, s \in PublishedState : OnNewState(i, s)
    \/ \E v \in 0..MaxHeight : PublisherWrites(v)

SpecAlias == Init /\ [][NextAlias]_vars

(***************************************************************************)
(* What the properties below read off a step: the call it made, whether    *)
(* the call was accepted, and the events it published.                     *)
(***************************************************************************)
Called(op) == last'.op = op
Accepted(op) == last'.op = op /\ last'.err = Nil
Published(type) == \E i \in 1..Len(last'.events) : last'.events[i].Type = type

\* a request is pending for wallet w
GoPending(w) == Has(pendingRequests, w)
SolPending(w) == requests[w].expiration > 0

(***************************************************************************)
(* C1.  No release before the window.                                      *)
(***************************************************************************)
\* a step of VaultContract.Withdraw against expires_at = requestTime + ChallengePeriod
C1Go ==
    Called("Withdraw") =>
        LET w == last'.wallet
        IN  IF ~GoPending(w) THEN last'.err # Nil /\ ~Published("Withdrawn")
            ELSE LET expires_at == requestTime[w] + ChallengePeriod
                 IN  /\ Published("Withdrawn") => last'.err = Nil /\ now >= expires_at
                     /\ last'.err = Nil => now >= expires_at
                     /\ now < expires_at =>
                            /\ last'.err = "challenge period not over"
                            /\ pendingRequests' = pendingRequests
                            /\ requestTime' = requestTime
                            /\ balances' = balances
                     /\ now = expires_at /\ Has(balances, w) =>
                            last'.err = Nil /\ Published("Withdrawn")

\* a step of Vault.withdraw against requests[wallet].expiration
C1Sol ==
    Called("withdraw") =>
        LET w == last'.wallet
            req == requests[w]
        IN  IF ~SolPending(w) THEN last'.err # Nil /\ ~Published("Withdrawn")
            ELSE /\ Published("Withdrawn") => last'.err = Nil /\ now >= req.expiration
                 /\ last'.err = Nil => now >= req.expiration
                 /\ now < req.expiration =>
                        /\ last'.err = "Challenge period not expired"
                        /\ requests' = requests
                        /\ held' = held
                 /\ now = req.expiration =>
                        last'.err # "Challenge period not expired"

C2Deletes ==
    /\ Accepted("Challenge") =>
           /\ GoPending(last'.wallet)
           /\ last'.events[1].State.Version > pendingRequests[last'.wallet].Version
           /\ ~Has(pendingRequests', last'.wallet)
           /\ ~Has(requestTime', last'.wallet)
    /\ Accepted("challenge") =>
           /\ SolPending(last'.wallet)
           /\ requests'[last'.wallet] = NoRequest

\* with no pending request, withdraw fails with 'no pending request' and
\* publishes nothing, whatever the time
C2NoRelease ==
    /\ Called("Withdraw") /\ ~GoPending(last'.wallet) =>
           last'.err = "no pending request" /\ last'.events = <<>>
    /\ Called("withdraw") /\ ~SolPending(last'.wallet) =>
           last'.err = "No pending request" /\ last'.events = <<>>

\* a deleted request does not come back: a channel gets a pending request
\* only from a new request that is accepted
C2OnlyRequestOpens ==
    /\ \A w \in Wallets :
           ~GoPending(w) /\ Has(pendingRequests', w) =>
               Accepted("RequestWithdrawal") /\ last'.wallet = w
    /\ \A w \in Wallets :
           ~SolPending(w) /\ requests'[w].expiration > 0 =>
               Accepted("request") /\ last'.wallet = w

\* C2: an accepted challenge (a snapshot of greater height than the pending
\* one) deletes the pending request; from then on every withdraw for the
\* channel fails with 'no pending request' and publishes no Withdrawn,
\* however much time passes, until a new request is accepted.
C2_ChallengeDefeatsStale == [][C2Deletes /\ C2NoRelease /\ C2OnlyRequestOpens]_vars

\* a challenge was accepted inside the window of the request it defeats
C2_Witness ==
    /\ last.op = "Challenge" /\ last.err = Nil
    /\ now < ChallengePeriod
    /\ ~Has(pendingRequests, "alice")

(***************************************************************************)
(* C3.  A request while a request is pending.                              *)
(***************************************************************************)
\* a request for a channel that has a pending request is rejected and
\* changes nothing
C3Rejects ==
    /\ Called("RequestWithdrawal") /\ GoPending(last'.wallet) =>
           /\ last'.err # Nil
           /\ pendingRequests' = pendingRequests
           /\ requestTime' = requestTime
    /\ Called("request") /\ SolPending(last'.wallet) =>
           /\ last'.err # Nil
           /\ requests' = requests

\* a pending request changes or goes only by an accepted challenge or withdraw
C3OnlyChallengeOrWithdrawCloses ==
    /\ \A w \in Wallets :
           /\ GoPending(w)
           /\ \/ ~Has(pendingRequests', w)
              \/ pendingRequests'[w] # pendingRequests[w]
              \/ requestTime'[w] # requestTime[w]
           => (Accepted("Challenge") \/ Accepted("Withdraw")) /\ last'.wallet = w
    /\ \A w \in Wallets :
           SolPending(w) /\ requests'[w] # requests[w] =>
               (Accepted("challenge") \/ Accepted("withdraw")) /\ last'.wallet = w

\* C3: a request submitted for a channel that already has a pending request
\* is rejected with an error and leaves the pending request (height, amount,
\* snapshot, opening time, expiry) unchanged; a pending request is never
\* replaced or removed by another request, only deleted by a successful
\* challenge or a successful withdraw.
C3_RequestWhilePendingRejected ==
    [][C3Rejects /\ C3OnlyChallengeOrWithdrawCloses]_vars

(***************************************************************************)
(* C4.  Authorization at submission.                                       *)
(***************************************************************************)
\* who may send a transaction to the Vault contract
Senders == Wallets \cup Nodes

\* in every state, each snapshot a request or a challenge would accept lists
\* only participants that are in the authorized-node set of that state
C4Authorized ==
    \A s \in Snapshots :
        /\ RequestWithdrawalErr(s) = Nil => Range(s.Participants) \subseteq nodeRegistry
        /\ ChallengeErr(s) = Nil => Range(s.Participants) \subseteq nodeRegistry
        /\ \A c \in Senders :
              /\ challengeErr(c, s) = Nil => Range(s.Participants) \subseteq isNode
              /\ \A a \in 1..MaxAmount :
                    requestErr(c, s, a) = Nil => Range(s.Participants) \subseteq isNode

\* a call rejected for an unauthorized participant changes nothing
C4Unchanged ==
    last'.err \in {"unauthorized participant", "Unauthorized participant"} =>
        /\ last'.op \in {"RequestWithdrawal", "Challenge", "request", "challenge"}
        /\ last'.events = <<>>
        /\ UNCHANGED <<goVars, solVars>>

\* C4: every request and every challenge the custodian accepts carries a
\* snapshot all of whose declared participants are in the authorized-node set
\* at the moment of acceptance; a snapshot listing a participant that is not
\* (never authorized, or de-authorized before submission) is rejected and the
\* custodian state is unchanged.
C4_AuthorizationAtSubmission == []C4Authorized /\ [][C4Unchanged]_vars

\* a request was rejected for its second participant while its first is
\* authorized and the custodian holds nothing of the request
C4_Witness ==
    /\ last.op = "request" /\ last.err = "Unauthorized participant"
    /\ isNode = {"N0"}
    /\ requests["alice"] = NoRequest

(***************************************************************************)
(* C5.  Replay of a released height.                                       *)
(***************************************************************************)
\* once Withdraw has released a request of height h, RequestWithdrawal
\* rejects every snapshot of the channel citing a height <= h
C5Go ==
    \A w \in Wallets :
        Accepted("Withdraw") /\ last'.wallet = w =>
            \A s \in SnapshotsOf(w) :
                s.Version <= pendingRequests[w].Version =>
                    (RequestWithdrawalErr(s) # Nil)'

\* once withdraw has released a request of height h, request rejects every
\* snapshot of the channel citing a height <= h
C5Sol ==
    \A w \in Wallets :
        Accepted("withdraw") /\ last'.wallet = w =>
            \A s \in SnapshotsOf(w), a \in 1..MaxAmount :
                s.Version <= requests[w].height =>
                    (requestErr(w, s, a) # Nil)'

\* C5: after a withdraw has succeeded for a channel on a request of height h,
\* a request on that channel citing a height <= h (the very same snapshot
\* included) is rejected: a second withdrawal needs a request of a strictly
\* greater height.
C5_SecondWithdrawalNeedsLaterHeight == [][C5Go /\ C5Sol]_vars

(***************************************************************************)
(* C6.  Custody is never negative.                                         *)
(***************************************************************************)
\* C6: the custody of every wallet (VaultContract.balances) and the assets
\* the Vault contract holds for every token are non-negative in every
\* reachable state: a withdraw never debits more than is held.
C6_CustodyNonNegative ==
    /\ \A w \in DOMAIN balances : balances[w] >= 0
    /\ \A t \in DOMAIN held : held[t] >= 0

(***************************************************************************)
(* C7.  The effect of a successful withdraw.                               *)
(***************************************************************************)
\* VaultContract.Withdraw, accepted for wallet w
C7Go ==
    \A w \in Wallets :
        Accepted("Withdraw") /\ last'.wallet = w =>
            LET amount == pendingRequests[w].Balance
            IN  /\ pendingRequests' = Delete(pendingRequests, w)
                /\ requestTime' = Delete(requestTime, w)
                /\ Has(balances', w) /\ balances'[w] = balances[w] - amount
                /\ Delete(balances', w) = Delete(balances, w)
                /\ nodeRegistry' = nodeRegistry
                /\ last'.events =
                       <<[Type |-> "Withdrawn", Wallet |-> w, Amount |-> amount]>>

\* Vault.withdraw, accepted for wallet w
C7Sol ==
    \A w \in Wallets :
        Accepted("withdraw") /\ last'.wallet = w =>
            LET req == requests[w]
            IN  /\ requests'[w] = NoRequest
                /\ \A o \in Wallets \ {w} : requests'[o] = requests[o]
                /\ held'[req.token] = held[req.token] - req.amount
                /\ \A t \in (DOMAIN held) \ {req.token} : held'[t] = held[t]
                /\ isNode' = isNode
                /\ last'.events =
                       <<[Type |-> "Withdrawn", Wallet |-> w, Token |-> req.token,
                          Amount |-> req.amount]>>

ValidSignatures(s) ==
    /\ Len(s.Sigs) = Len(s.Participants)
    /\ \A i \in 1..Len(s.Participants) : s.Sigs[i] = s.Participants[i]

\* C8: a request or a challenge is accepted only if, for every index i,
\* signatures[i] is a valid signature by participants[i] over the snapshot's
\* digest: a snapshot with a missing, forged or mis-positioned signature is
\* rejected.
C8_SignaturesVerifiedPerPosition ==
    \A s \in Snapshots :
        ~ValidSignatures(s) =>
            /\ RequestWithdrawalErr(s) # Nil
            /\ ChallengeErr(s) # Nil
            /\ \A c \in Senders :
                  /\ challengeErr(c, s) # Nil
                  /\ \A a \in 1..MaxAmount : requestErr(c, s, a) # Nil

(***************************************************************************)
(* C9.  The quorum threshold.                                              *)
(***************************************************************************)
\* C9: request rejects a snapshot that has one participant fewer than the
\* quorum, whatever else is valid in it (the rejecting half of the threshold:
\* exactly min_quorum accepted, min_quorum - 1 rejected).
C9_QuorumThreshold ==
    \A s \in Snapshots :
        Len(s.Participants) = Quorum - 1 =>
            /\ RequestWithdrawalErr(s) # Nil
            /\ \A a \in 1..MaxAmount : requestErr(s.Wallet, s, a) # Nil

(***************************************************************************)
(* C10.  withdraw(finalize) and the digest of the accepted candidate.      *)
(***************************************************************************)
\* C10: withdraw accepts finalize only if its digest equals the one digest
\* kept for the accepted candidate: in every state, any two finalize
\* snapshots withdraw would accept have the same digest (the same wallet,
\* token, height, balance and participants).
C10_WithdrawRequiresDigest ==
    \A f1 \in AliceSigned, f2 \in AliceSigned :
        withdrawErr(f1, TRUE) = Nil /\ withdrawErr(f2, TRUE) = Nil =>
            Hash(f1) = Hash(f2)

(***************************************************************************)
(* C11.  A failed transfer reverts the withdraw.                           *)
(***************************************************************************)
TransferErrors == {"ETH transfer failed", "ERC20 transfer failed"}

\* a withdraw whose transfer fails leaves the request, its expiry and the
\* assets held as they were and publishes nothing
C11Reverts ==
    Called("withdraw") /\ last'.err \in TransferErrors =>
        /\ SolPending(last'.wallet)
        /\ requests' = requests
        /\ held' = held
        /\ last'.events = <<>>

\* after it, a withdraw of the same request whose transfer succeeds is accepted
C11Retry ==
    Called("withdraw") /\ last'.err \in TransferErrors =>
        \A f \in AliceSigned :
            (f.Version = requests[f.Wallet].height
             /\ held[requests[f.Wallet].token] >= requests[f.Wallet].amount
             => withdrawErr(f, TRUE) = Nil)'

\* C11: if the asset transfer fails during withdraw, the whole transition
\* reverts: the pending request, its expiry and the assets held are exactly
\* as before the call and no Withdrawn is published; a later withdraw of the
\* same request, once the transfer can succeed, is accepted.
C11_TransferFailureReverts == [][C11Reverts /\ C11Retry]_vars

\* a withdraw failed on its transfer after the window, the request still
\* pending and the contract holding enough for a retry
C11_Witness ==
    /\ last.op = "withdraw" /\ last.err = "ERC20 transfer failed"
    /\ requests["alice"].expiration > 0 /\ now >= requests["alice"].expiration
    /\ held[requests["alice"].token] >= requests["alice"].amount

(***************************************************************************)
(* C12.  An operation that fails changes nothing.                          *)
(***************************************************************************)
CustodianOps ==
    {"Deposit", "RequestWithdrawal", "Challenge", "Withdraw",
     "deposit", "request", "challenge", "withdraw"}

C12Step ==
    last'.op \in CustodianOps /\ last'.err # Nil =>
        /\ balances' = balances
        /\ pendingRequests' = pendingRequests
        /\ requestTime' = requestTime
        /\ requests' = requests
        /\ held' = held
        /\ last'.events = <<>>

\* C12: every custodian operation (deposit, request, challenge, withdraw)
\* that returns an error leaves custody, the pending-request table and the
\* request timers exactly as they were before the call and publishes no
\* event.
C12_ErrorLeavesStateUnchanged == [][C12Step]_vars

\* a withdraw was refused inside the window of a pending request of a wallet
\* with custody
C12_Witness ==
    /\ last.op = "Withdraw" /\ last.err = "challenge period not over"
    /\ Has(pendingRequests, "alice")
    /\ Has(balances, "alice") /\ balances["alice"] > 0

(***************************************************************************)
(* C13.  A challenge that is not newer.                                    *)
(***************************************************************************)
\* in every state, a candidate whose height is at most the pending height is
\* refused by Challenge and by challenge, whoever sends it
C13Rejects ==
    \A s \in Snapshots :
        /\ GoPending(s.Wallet) /\ s.Version <= pendingRequests[s.Wallet].Version =>
               ChallengeErr(s) # Nil
        /\ SolPending(s.Wallet) /\ s.Version <= requests[s.Wallet].height =>
               \A c \in Senders : challengeErr(c, s) # Nil

\* a refused challenge leaves the pending request and its timer as they were
C13Stays ==
    /\ Called("Challenge") /\ last'.err # Nil =>
           pendingRequests' = pendingRequests /\ requestTime' = requestTime
    /\ Called("challenge") /\ last'.err # Nil => requests' = requests

\* C13: a challenge whose candidate height is equal to (or lower than) the
\* pending request's height is rejected, and the pending request stays
\* pending and unchanged.
C13_ChallengeNotNewerRejected == []C13Rejects /\ [][C13Stays]_vars

\* a challenge was refused as not newer while the request it aimed at stands
C13_Witness ==
    /\ last.op = "Challenge" /\ last.err = "challenge version is not newer"
    /\ Has(pendingRequests, "alice")
    /\ pendingRequests["alice"].Version = MaxHeight

(***************************************************************************)
(* C14.  The snapshot invariants.                                          *)
(***************************************************************************)
NoDuplicates(p) == \A i, j \in 1..Len(p) : p[i] = p[j] => i = j

WellFormed(s) ==
    /\ Len(s.Sigs) = Len(s.Participants)
    /\ Len(s.Participants) > 0
    /\ NoDuplicates(s.Participants)
    /\ s.Balance >= 0

\* C14: every snapshot a request or a challenge accepts satisfies the
\* snapshot invariants: as many signatures as participants and at least one,
\* no node identity twice among the participants, a balance >= 0; a snapshot
\* violating any of them is rejected.
C14_SnapshotInvariants ==
    \A s \in Snapshots :
        ~WellFormed(s) =>
            /\ RequestWithdrawalErr(s) # Nil
            /\ ChallengeErr(s) # Nil
            /\ \A c \in Senders :
                  /\ challengeErr(c, s) # Nil
                  /\ \A a \in 1..MaxAmount : requestErr(c, s, a) # Nil

(***************************************************************************)
(* C15.  The effect of a successful deposit.                               *)
(***************************************************************************)
\* the assets a channel can be of: the fungible tokens and the native asset
AllTokens == Tokens \cup {NativeToken}

\* the custody VaultContract holds for channel (w, t): the entry Withdraw
\* reads and debits for a pending snapshot of wallet w, whatever its token
Custody(w, t) == IF Has(balances, w) THEN balances[w] ELSE 0

\* VaultContract.Deposit, accepted for (w, t)
C15Go ==
    \A w \in Wallets, t \in AllTokens :
        Accepted("Deposit") /\ last'.wallet = w /\ last'.events[1].Token = t =>
            LET amount == last'.events[1].Amount
            IN  /\ (Custody(w, t))' = Custody(w, t) + amount
                /\ \A w2 \in Wallets, t2 \in AllTokens :
                      <<w2, t2>> # <<w, t>> => (Custody(w2, t2))' = Custody(w2, t2)
                /\ pendingRequests' = pendingRequests
                /\ requestTime' = requestTime
                /\ last'.events = <<[Type |-> "Deposited", Wallet |-> w,
                                     Token |-> t, Amount |-> amount]>>

\* Vault.deposit, accepted for token t
C15Sol ==
    \A t \in AllTokens :
        Accepted("deposit") /\ last'.events[1].Token = t =>
            LET amount == last'.events[1].Amount
            IN  /\ held'[t] = held[t] + amount
                /\ \A t2 \in AllTokens \ {t} : held'[t2] = held[t2]
                /\ requests' = requests
                /\ last'.events = <<[Type |-> "Deposited", Wallet |-> last'.wallet,
                                     Token |-> t, Amount |-> amount]>>

\* C15: a successful deposit(account, token, amount) increases the custody
\* of (account, token) by exactly amount, leaves the custody of every other
\* (account, token) pair and every pending request unchanged, and publishes
\* exactly one Deposited(account, token, amount).
C15_DepositEffect == [][C15Go /\ C15Sol]_vars

\* ---- C16 ----
C16Go ==
    Accepted("Deposit") => last'.events[1].Amount > 0

C16Sol ==
    Accepted("deposit") => last'.events[1].Amount > 0

\* C16: a deposit is accepted only with an amount above zero: no accepted
\* call of Deposit or deposit carries an amount of zero or less.
C16_DepositAmountPositive == [][C16Go /\ C16Sol]_vars

\* ---- C17 ----
\* request at the boundary: the whole balance of the candidate passes the check
\* of the amount and is accepted when the other checks pass; one unit more is
\* refused
C17Boundary ==
    \A s \in Snapshots :
        /\ requestErr(s.Wallet, s, s.Balance + 1) # Nil
        /\ requestErr(s.Wallet, s, s.Balance) # "Withdrawal exceeds state balance"
        /\ ~SolPending(s.Wallet) /\ verifyStateSignaturesErr(s) = Nil =>
               requestErr(s.Wallet, s, s.Balance) = Nil

\* the amount recorded for release is at most the balance of the accepted
\* snapshot; VaultContract records the snapshot and releases its balance
C17Recorded ==
    /\ \A w \in Wallets :
           Accepted("request") /\ last'.wallet = w =>
               /\ requests'[w].amount = last'.events[1].Amount
               /\ requests'[w].amount <= last'.events[2].State.Balance
    /\ \A w \in Wallets :
           Accepted("Withdraw") /\ last'.wallet = w =>
               last'.events[1].Amount <= pendingRequests[w].Balance

\* C17: request(candidate, amount) is accepted with amount = candidate.balance
\* and rejected with amount = candidate.balance + 1, so that the amount recorded
\* for release never exceeds the balance of the accepted snapshot.
C17_RequestAmountBoundary == []C17Boundary /\ [][C17Recorded]_vars

C17_Witness ==
    /\ last.op = "request" /\ last.err = Nil
    /\ last.events[1].Amount = last.events[2].State.Balance
    /\ requests[last.wallet].amount = last.events[2].State.Balance
    /\ last.events[2].State.Balance = MaxAmount

\* ---- C18 ----
\* an accepted Challenge was submitted by a node of the registry or by the
\* wallet of the channel
C18Go ==
    \A w \in Wallets :
        Accepted("Challenge") /\ last'.wallet = w =>
            last'.events[1].Challenger \in nodeRegistry \cup {w}

\* challenge reverts for a sender that is neither a node nor the wallet
C18Sol ==
    \A s \in Snapshots, c \in Senders :
        c # s.Wallet /\ c \notin isNode => challengeErr(c, s) # Nil

\* C18: challenge is accepted only when its caller is a currently authorized
\* node or the wallet of the channel; from any other identity it is rejected,
\* even with a newer valid snapshot, and the pending request stays.
C18_ChallengeCallerAuthorized == []C18Sol /\ [][C18Go]_vars

\* ---- C19 ----
\* the snapshot of the channel (s.Wallet, token) with the contents of s
OnToken(s, token) == [s EXCEPT !.Token = token]

\* while (w, t1) is pending in Vault, a request with a verified snapshot of
\* (w, t2) is accepted
C19Sol ==
    \A s \in Snapshots, t2 \in AllTokens :
        /\ SolPending(s.Wallet) /\ requests[s.Wallet].token # t2
        /\ verifyStateSignaturesErr(OnToken(s, t2)) = Nil
        => requestErr(s.Wallet, OnToken(s, t2), s.Balance) = Nil

\* while (w, t1) is pending in VaultContract, recording an accepted request of
\* (w, t2) leaves the pending request of (w, t1) in the table
C19Go ==
    \A s \in Snapshots, t2 \in AllTokens :
        /\ GoPending(s.Wallet) /\ pendingRequests[s.Wallet].Token # t2
        /\ RequestWithdrawalErr(OnToken(s, t2)) = Nil
        => LET table == Put(pendingRequests, s.Wallet, OnToken(s, t2))
           IN  \E k \in DOMAIN table : table[k] = pendingRequests[s.Wallet]

\* C19: pending requests are kept per channel (wallet, token): while (w, t1)
\* has a pending request a valid request on (w, t2) is accepted, and it does
\* not delete, replace or modify the pending request of (w, t1).
C19_PendingPerChannel == C19Sol /\ C19Go

\* ---- C20 ----
\* what subscriber i has got so far: the events its reader took, then those
\* waiting in its channel
Stream(i) == received[i] \o subscribers[i]

\* C20: for every subscriber the events it receives are a subsequence of the
\* events in the order the custodian accepted their operations: each is the
\* event sent at its position of that order, and the positions strictly
\* increase (no event is reordered or duplicated), whatever the interleaving
\* of the calls, the dispatcher and the readers.
C20_SubscriberOrder ==
    \A i \in DOMAIN subscribers :
        /\ \A k \in DOMAIN Stream(i) :
               /\ Stream(i)[k].seq \in DOMAIN sent
               /\ Stream(i)[k].event = sent[Stream(i)[k].seq]
        /\ \A j, k \in DOMAIN Stream(i) :
               j < k => Stream(i)[j].seq < Stream(i)[k].seq

C20_Witness ==
    /\ Len(subscribers) = 2
    /\ \E k \in DOMAIN received[1] :
           k > 1 /\ received[1][k].seq > received[1][k - 1].seq + 1
    /\ received[2] # <<>> /\ received[2] # received[1]
    /\ \E e \in Range(sent) : e.Type = "WithdrawalRequested"

\* ---- C21 ----
\* a step of dispatch that delivers the event in hand
Delivered == inHand # <<>> /\ inHand' = <<>>

\* the delivery reaches exactly the subscribers whose channel has room
C21Isolated ==
    Delivered =>
        \A i \in DOMAIN subscribers :
            subscribers'[i] = IF Len(subscribers[i]) < SubscriberCap
                              THEN Append(subscribers[i], inHand[1])
                              ELSE subscribers[i]

\* dispatch never waits for a subscriber: with an event in hand it can deliver
C21NoWait == inHand # <<>> => ENABLED Deliver

\* C21: when the channel of one subscriber is full the dispatcher drops the
\* event for that subscriber only; every other subscriber with room receives
\* it, and the dispatcher goes on to the next event without waiting.
C21_SlowSubscriberIsolated == []C21NoWait /\ [][C21Isolated]_vars

C21_Witness ==
    /\ last.op = "dispatch" /\ inHand = <<>>
    /\ Len(subscribers) = 2
    /\ Len(subscribers[1]) = SubscriberCap
    /\ subscribers[2] # <<>>
    /\ \A k \in DOMAIN Stream(1) :
           Stream(1)[k].seq # subscribers[2][Len(subscribers[2])].seq
    /\ subscribers[1][1].seq < subscribers[2][Len(subscribers[2])].seq

\* ---- C22 ----
\* the height node i stores for wallet w, 0 when it stores none
StoredHeight(i, w) == IF Has(store[i], w) THEN store[i][w].Version ELSE 0

C22Step ==
    \A i \in DOMAIN store, w \in Wallets :
        /\ Has(store[i], w) => (Has(store[i], w))'
        /\ (StoredHeight(i, w))' >= StoredHeight(i, w)
        /\ Has(store[i], w) /\ (store[i][w])' # store[i][w] =>
               (StoredHeight(i, w))' > StoredHeight(i, w)

\* C22: at every node and for every channel the height of the stored snapshot
\* never decreases and every replacement strictly increases it, whatever the
\* interleaving of the OnNewState deliveries.
C22_StoreMonotonic == [][C22Step]_vars

C22_Witness ==
    /\ last.op = "OnNewState"
    /\ Has(store[last.node], last.wallet)
    /\ store[last.node][last.wallet].Version = MaxHeight
    /\ last.state.Version < MaxHeight

\* ---- C23 ----
C23Step ==
    \A i \in DOMAIN store, w \in Wallets :
        /\ Called("OnNewState") /\ last'.node = i /\ last'.wallet = w
        /\ Has(store[i], w) /\ store[i][w].Version = last'.state.Version
        => store' = store

\* C23: applying to a node's store a snapshot of the stored height, the same
\* snapshot again or another snapshot of that height, leaves the store as it
\* was: the snapshot that arrived first is retained.
C23_EqualHeightIdempotent == [][C23Step]_vars

C23_Witness ==
    /\ last.op = "OnNewState"
    /\ Has(store[last.node], last.wallet)
    /\ store[last.node][last.wallet].Version = last.state.Version
    /\ store[last.node][last.wallet].Token = last.state.Token
    /\ store[last.node][last.wallet].Balance # last.state.Balance

\* ---- C24 ----
\* node i holds a snapshot of the channel of candidate that is higher
HoldsNewer(i, candidate) ==
    /\ Has(store[i], candidate.Wallet)
    /\ store[i][candidate.Wallet].Token = candidate.Token
    /\ store[i][candidate.Wallet].Version > candidate.Version

C24Step ==
    \A i \in DOMAIN received :
        Called("receive") /\ received'[i] # received[i] =>
            LET evt == received'[i][Len(received'[i])].event
            IN  evt.Type = "WithdrawalRequested" =>
                    /\ calling'[i] # <<>> <=> HoldsNewer(i, evt.State)
                    /\ HoldsNewer(i, evt.State) =>
                           calling'[i] = <<store[i][evt.State.Wallet]>>

\* C24: on a delivered WithdrawalRequested(candidate) a node submits
\* challenge(local) if and only if it stores a snapshot local of the candidate's
\* channel with local.height > candidate.height; with no such snapshot, or one
\* of the candidate's height, it submits nothing.
C24_ChallengeIffNewer == [][C24Step]_vars

\* ---- C25 ----
\* the request of wallet w cites a height below the snapshot that node i stored
\* and is about to challenge with, every participant of that snapshot is
\* authorized, and the window of the request has not elapsed
FraudSeen(i, w) ==
    /\ GoPending(w)
    /\ calling[i] # <<>> /\ calling[i][1].Wallet = w
    /\ calling[i][1].Version > pendingRequests[w].Version
    /\ Range(calling[i][1].Participants) \subseteq nodeRegistry
    /\ now - requestTime[w] < ChallengePeriod

\* a challenge has just cleared the pending request of w
Cleared(w) == last.op = "Challenge" /\ last.err = Nil /\ last.wallet = w /\ ~GoPending(w)

\* a call of the wallet's owner got in before the challenge of the node
Overtaken(w) ==
    /\ last.op \in {"Withdraw", "RequestWithdrawal"}
    /\ last.err = Nil /\ last.wallet = w

\* once a challenge is accepted, Withdraw finds no pending request
C25After ==
    \A w \in Wallets :
        Accepted("Challenge") /\ last'.wallet = w =>
            (WithdrawErr(w))' = "no pending request"

AcceptedSnapshots ==
    IF last.err # Nil THEN {}
    ELSE {last.events[i].State :
             i \in {j \in DOMAIN last.events : "State" \in DOMAIN last.events[j]}}

\* C26: for every valid snapshot s the digest the Go code computes off-chain
\* (State.Hash) equals the digest the settlement-layer contract computes over
\* the same wallet, token, height, balance and participants.
C26_DigestAgreement ==
    \A s \in AcceptedSnapshots : HashHex(s) = stateHash(s)

\* ---- C27 ----
\* the simulator and the contract have the same nodes and the same pending
\* requests: the same wallets, heights, tokens and expiry times
SameTables ==
    /\ nodeRegistry = isNode
    /\ \A w \in Wallets :
           /\ GoPending(w) <=> SolPending(w)
           /\ GoPending(w) =>
                  /\ pendingRequests[w].Version = requests[w].height
                  /\ pendingRequests[w].Token = requests[w].token
                  /\ requestTime[w] + ChallengePeriod = requests[w].expiration

\* C27: the simulator and the Vault contract implement the same custodian
\* contract: given the same calls they accept and reject the same calls and
\* keep the same table of pending requests. Whenever their tables agree, a
\* request or a challenge with the same arguments is accepted by both or
\* rejected by both.
C27_SameCustodian ==
    SameTables =>
        \A s \in BothSnapshots :
            /\ RequestWithdrawalErr(s) = Nil <=> requestErr(s.Wallet, s, s.Balance) = Nil
            /\ \A c \in Nodes \cup {s.Wallet} :
                   ChallengeErr(s) = Nil <=> challengeErr(c, s) = Nil

(***************************************************************************)
(* C28: node ids are unique in the registry. In every state no two         *)
(* registrations held share a node id; a register call naming a node id    *)
(* that is currently registered is rejected, whoever calls and whatever    *)
(* stake is offered, and a rejected register call leaves the registry as   *)
(* it was. Registry.register and MockRegistry.Register.                    *)
(***************************************************************************)
\* the operators holding a registration: from register until withdraw
Registered == {o \in Operators : nodes[o].amount > 0}

C28Sol ==
    /\ \A a, b \in Registered : a # b => nodes[a].nodeId # nodes[b].nodeId
    /\ \A o \in Registered, sender \in Operators :
          registerErr(sender, nodes[o].nodeId) # Nil

C28Go ==
    /\ \A i, j \in 1..Len(mActiveNodes) : i # j => mActiveNodes[i] # mActiveNodes[j]
    /\ \A k, l \in DOMAIN mNodes : k # l => mNodes[k].ID # mNodes[l].ID
    /\ \A k \in DOMAIN mNodes, st \in Stakes :
          MockRegistry_RegisterErr(mNodes[k].ID, st) # Nil

C28Rejected ==
    (last'.op \in {"Registry.register", "MockRegistry.Register"} /\ last'.err # Nil)
        => UNCHANGED regVars

C28_NodeIdsUnique == [](C28Sol /\ C28Go) /\ [][C28Rejected]_vars

\* bob was refused the id alice holds while both hold a registration
C28_Witness ==
    /\ last.op = "Registry.register"
    /\ last.err = "Node ID already used"
    /\ last.wallet = "bob"
    /\ {"alice", "bob"} \subseteq Registered

(***************************************************************************)
(* C29: the stake is time-locked. unregister sets unlockAt to its time     *)
(* plus COOLDOWN_PERIOD and nothing but withdraw changes it afterwards;    *)
(* withdraw goes through only for an operator whose unlockAt is set and    *)
(* only at a time >= unlockAt; a withdraw that reverts leaves the record   *)
(* and the stake as they were; a withdraw that goes through returns the    *)
(* stake and clears the record, so that withdraw called again reverts.     *)
(***************************************************************************)
\* while the cooldown runs, and for who never unregistered, withdraw reverts
C29Locked ==
    \A o \in Operators :
        /\ nodes[o].unlockAt = 0 => Registry_withdrawErr(o) = "Not unregistering"
        /\ (nodes[o].unlockAt # 0 /\ now < nodes[o].unlockAt)
              => Registry_withdrawErr(o) = "Cooldown not ended"

C29Unregister ==
    \A o \in Operators :
        /\ (Accepted("Registry.unregister") /\ last'.wallet = o)
              => (nodes[o].unlockAt = 0 /\ nodes'[o].unlockAt = now + COOLDOWN_PERIOD)
        /\ nodes[o].unlockAt # 0
              => \/ nodes'[o].unlockAt = nodes[o].unlockAt
                 \/ Accepted("Registry.withdraw") /\ last'.wallet = o

C29Withdraw ==
    \A o \in Operators :
        (Called("Registry.withdraw") /\ last'.wallet = o) =>
            IF last'.err = Nil
            THEN /\ nodes[o].unlockAt # 0
                 /\ now >= nodes[o].unlockAt
                 /\ nodes'[o] = NoNode
                 /\ yellowToken'[o] = yellowToken[o] + STAKE_AMOUNT
                 /\ yellowToken'[RegistryAddress] = yellowToken[RegistryAddress] - STAKE_AMOUNT
                 /\ nodes'[o].unlockAt = 0 /\ nodes'[o].amount = 0
            ELSE UNCHANGED regVars

\* once the record is cleared a further withdraw finds unlockAt = 0 and reverts
C29Again ==
    \A o \in Operators :
        (last.op = "Registry.withdraw" /\ last.err = Nil /\ last.wallet = o)
            => Registry_withdrawErr(o) = "Not unregistering"

C29_StakeTimeLocked ==
    [](C29Locked /\ C29Again) /\ [][C29Unregister /\ C29Withdraw]_vars

\* a withdraw went through at the very time the cooldown ended
C29_Witness ==
    /\ last.op = "Registry.withdraw"
    /\ last.err = Nil
    /\ now = COOLDOWN_PERIOD
    /\ yellowToken[RegistryAddress] = 0

(***************************************************************************)
(* C30: pagination. Every call of GetNodes / getActiveNodes with an offset *)
(* and a limit in the unsigned 64-bit range returns, without failing, the  *)
(* entries of the active list at positions offset .. min(offset + limit,   *)
(* total) - 1 in list order, and the empty list when offset >= total.      *)
(***************************************************************************)
\* positions offset .. min(offset + limit, total) - 1 of list, counted from 0
PageOf(list, offset, limit) ==
    LET total == Len(list)
        hi == IF offset + limit < total THEN offset + limit ELSE total
    IN  IF offset >= total THEN <<>> ELSE SubSeq(list, offset + 1, hi)

C30Go ==
    last.op = "MockRegistry.GetNodes" =>
        /\ last.err = Nil
        /\ last.result =
              [i \in DOMAIN PageOf(mActiveNodes, last.offset, last.limit) |->
                  mNodes[PageOf(mActiveNodes, last.offset, last.limit)[i]]]

C30Sol ==
    last.op = "Registry.getActiveNodes" =>
        /\ last.err = Nil
        /\ last.result =
              [i \in DOMAIN PageOf(activeNodes, last.offset, last.limit) |->
                  nodes[PageOf(activeNodes, last.offset, last.limit)[i]]]

C30_Pagination == C30Go /\ C30Sol

(***************************************************************************)
(* C31: the custodian's operations publish without blocking. There is no   *)
(* reachable state in which a call holds vc.mu while it waits for room on  *)
(* a full event bus and dispatch, with an event taken, waits for vc.mu.    *)
(***************************************************************************)
\* a call waits for room holding vc.mu, dispatch waits for vc.mu holding an
\* event: neither can ever move
LockedUp == mu # <<>> /\ Len(eventBus) >= BusCap /\ inHand # <<>>

C31_PublishWithoutBlocking == ~LockedUp

(***************************************************************************)
(* C32: a node's store entry is only ever replaced by a snapshot that      *)
(* passes full verification: whenever OnNewState writes the store, the     *)
(* snapshot written has participants, all of them authorized nodes, and    *)
(* carries for each participant, in order, a signature valid for it.       *)
(***************************************************************************)
\* what full verification requires at least (a quorum of participants comes
\* on top): participants present and authorized, signatures aligned and valid
PassesVerification(s) ==
    /\ Len(s.Participants) > 0
    /\ Range(s.Participants) \subseteq nodeRegistry
    /\ Len(s.Sigs) = Len(s.Participants)
    /\ \A i \in 1..Len(s.Participants) : s.Sigs[i] = s.Participants[i]

C32Step ==
    (Called("OnNewState") /\ store' # store) => PassesVerification(last'.state)

C32_StoreOnlyVerified == [][C32Step]_vars

(***************************************************************************)
(* C33: acceptance is by height, not by arrival order. Whatever snapshots  *)
(* of one channel were published and in whatever order their deliveries    *)
(* ran, once every delivery to a node has completed the node stores a      *)
(* snapshot that was delivered to it and has the maximum height of those.  *)
(***************************************************************************)
\* the deliveries of snapshots of wallet w to node i
DeliveriesTo(i, w) ==
    {k \in DOMAIN deliveries : deliveries[k].node = i /\ deliveries[k].state.Wallet = w}

C33_MaxHeightStored ==
    \A i \in DOMAIN store, w \in Wallets :
        (DeliveriesTo(i, w) # {} /\ \A k \in DeliveriesTo(i, w) : deliveries[k].done) =>
            /\ Has(store[i], w)
            /\ \E k \in DeliveriesTo(i, w) : store[i][w] = deliveries[k].state
            /\ \A k \in DeliveriesTo(i, w) :
                  store[i][w].Version >= deliveries[k].state.Version

\* two publications, all deliveries done, the lower snapshot arrived last and
\* the higher one is stored
C33_Witness ==
    /\ Len(deliveries) = 2 * Quorum
    /\ \A k \in DOMAIN deliveries : deliveries[k].done
    /\ last.op = "OnNewState"
    /\ last.state.Version = 1
    /\ store[1]["alice"].Version = MaxHeight

(***************************************************************************)
(* C34: a node signs only the next snapshot of a channel. Whenever         *)
(* OnSignRequest returns a signature, the snapshot's height is one more    *)
(* than the highest height the node stores for the channel (0 when it      *)
(* stores none), its balance is not negative and its participants are in   *)
(* canonical (ascending) order.                                            *)
(***************************************************************************)
\* the position of the node with this id in the sorted list of node ids
NodeOf(id) == CHOOSE i \in DOMAIN NodeIds : NodeIds[i] = id

Canonical(p) == \A a, b \in 1..Len(p) : a < b => NodeOf(p[a]) < NodeOf(p[b])

HighestStored(i, w) == IF Has(store[i], w) THEN store[i][w].Version ELSE 0

C34_SignsOnlyNextSnapshot ==
    (last.op = "RequestSignature" /\ last.err = Nil) =>
        /\ last.state.Version = HighestStored(NodeOf(last.node), last.wallet) + 1
        /\ last.state.Balance >= 0
        /\ Canonical(last.state.Participants)

(***************************************************************************)
(* C35: a node adopts the newer snapshot of a withdrawal request. When a   *)
(* node takes a WithdrawalRequested(candidate) from its channel while the  *)
(* snapshot it stores for the wallet is lower than the candidate, then     *)
(* after handling the event it stores a snapshot of the candidate's height *)
(* or higher for that wallet.                                              *)
(***************************************************************************)
C35Step ==
    \A i \in DOMAIN received :
        (Called("receive") /\ received'[i] # received[i]) =>
            LET evt == received'[i][Len(received'[i])].event
            IN  (/\ evt.Type = "WithdrawalRequested"
                 /\ Has(store[i], evt.State.Wallet)
                 /\ store[i][evt.State.Wallet].Version < evt.State.Version)
                    => /\ Has(store'[i], evt.State.Wallet)
                       /\ store'[i][evt.State.Wallet].Version >= evt.State.Version

C35_AdoptsNewerCandidate == [][C35Step]_vars

(***************************************************************************)
(* C36: a node keeps and looks up snapshots per channel (wallet, token).   *)
(* The snapshot a node takes to a challenge has the wallet and the token   *)
(* of the withdrawal request that triggered it, and OnNewState never       *)
(* replaces the stored snapshot of a wallet by one of another token.       *)
(***************************************************************************)
C36Challenge ==
    \A i \in DOMAIN received :
        (Called("receive") /\ received'[i] # received[i]) =>
            LET evt == received'[i][Len(received'[i])].event
            IN  (evt.Type = "WithdrawalRequested" /\ calling'[i] # <<>>) =>
                    /\ calling'[i][1].Wallet = evt.State.Wallet
                    /\ calling'[i][1].Token = evt.State.Token

C36Overwrite ==
    \A i \in DOMAIN store, w \in Wallets :
        (Called("OnNewState") /\ Has(store[i], w) /\ store'[i] # store[i]
         /\ last'.wallet = w) =>
            store'[i][w].Token = store[i][w].Token

C36_PerChannelStore == [][C36Challenge /\ C36Overwrite]_vars

(***************************************************************************)
(* C37: of the challenges several nodes submit against one pending         *)
(* request exactly one succeeds. A Challenge that is accepted deletes the  *)
(* request and publishes exactly one Challenged event, and from then on    *)
(* every challenge that would have been accepted against that request      *)
(* returns "no pending request to challenge"; a Challenge that returns an  *)
(* error changes nothing and publishes nothing.                            *)
(***************************************************************************)
C37Winner ==
    \A w \in Wallets :
        (Accepted("Challenge") /\ last'.wallet = w) =>
            /\ GoPending(w) /\ ~GoPending(w)'
            /\ Len(last'.events) = 1 /\ Published("Challenged")
            /\ \A s \in EventSnapshots :
                  (s.Wallet = w /\ ChallengeErr(s) = Nil) =>
                      ChallengeErr(s)' = "no pending request to challenge"

C37Loser ==
    (Called("Challenge") /\ last'.err # Nil) =>
        /\ last'.events = <<>>
        /\ UNCHANGED <<balances, pendingRequests, requestTime, nodeRegistry, eventBus,
                       sent, store>>

\* the challenges accepted so far, as the Challenged events published
ChallengedCount == Cardinality({k \in DOMAIN sent : sent[k].Type = "Challenged"})
RequestedCount == Cardinality({k \in DOMAIN sent : sent[k].Type = "WithdrawalRequested"})

\* no more challenges are accepted than requests were made
C37OnePerRequest == ChallengedCount <= RequestedCount

C37_OneChallengeWins == []C37OnePerRequest /\ [][C37Winner /\ C37Loser]_vars

\* both nodes called Challenge for the one request: the second was told that
\* no request is pending
C37_Witness ==
    /\ last.op = "Challenge"
    /\ last.err = "no pending request to challenge"
    /\ RequestedCount = 1
    /\ ChallengedCount = 1
    /\ Len(calling) = 2 /\ calling[1] = <<>> /\ calling[2] = <<>>

(***************************************************************************)
(* C38.  Challenge has no deadline.                                        *)
(***************************************************************************)
\* what the simulator asks of a challenge: a pending request, a strictly
\* newer candidate, every participant of it a registered node
C38GoValid(s) ==
    /\ GoPending(s.Wallet)
    /\ s.Version > pendingRequests[s.Wallet].Version
    /\ \A i \in 1..Len(s.Participants) : s.Participants[i] \in nodeRegistry

\* what the Vault asks: the same, signed by its participants and sent by the
\* wallet or a node
C38SolValid(c, s) ==
    /\ SolPending(s.Wallet)
    /\ s.Version > requests[s.Wallet].height
    /\ c = s.Wallet \/ c \in isNode
    /\ verifyStateSignaturesErr(s) = Nil

\* the window of wallet w's pending request has elapsed
C38Elapsed(w) ==
    IF adapter = "simulated"
    THEN GoPending(w) /\ now >= requestTime[w] + ChallengePeriod
    ELSE SolPending(w) /\ now >= requests[w].expiration

\* at every time, elapsed window or not, such a challenge is one that succeeds
C38Open ==
    /\ adapter = "simulated" =>
          \A s \in BothSnapshots : C38GoValid(s) => ChallengeErr(s) = Nil
    /\ adapter = "native" =>
          \A c \in {"N0", "alice", "bob"}, s \in BothSnapshots :
              C38SolValid(c, s) => challengeErr(c, s) = Nil

\* a challenge that succeeds deletes the request, and a pending request goes
\* away through a challenge or a withdrawal that succeeds, never through time
C38Step ==
    /\ Accepted("Challenge") => ~Has(pendingRequests', last'.wallet)
    /\ Accepted("challenge") => requests'[last'.wallet].expiration = 0
    /\ GoPending("alice") /\ ~Has(pendingRequests', "alice")
          => Accepted("Challenge") \/ Accepted("Withdraw")
    /\ SolPending("alice") /\ requests'["alice"].expiration = 0
          => Accepted("challenge") \/ Accepted("withdraw")

\* C38: a challenge with a strictly newer snapshot of authorized participants
\* (on the Vault: signed by them and sent by the wallet or a node) succeeds
\* and deletes the pending request at any time the request is pending, after
\* expires_at as well as before; only a withdrawal or a challenge ends that
C38_ChallengeHasNoDeadline == []C38Open /\ [][C38Step]_vars

\* a challenge has succeeded at a time past the window of the request, which
\* was opened at time 0
C38_Witness ==
    /\ last.op \in {"Challenge", "challenge"}
    /\ last.err = Nil
    /\ now >= ChallengePeriod + 1

(***************************************************************************)
(* C39.  A snapshot is fixed when it is accepted.                          *)
(***************************************************************************)
\* Withdraw releases the Balance the snapshot had when RequestWithdrawal
\* accepted it, and an assignment of a caller to its State changes neither
\* the pending request nor what a node challenges that request with
C39Step ==
    /\ Accepted("Withdraw") =>
          \A k \in DOMAIN last'.events :
              last'.events[k].Type = "Withdrawn" =>
                  last'.events[k].Amount = FirstSnapshot.Balance
    /\ Called("write") =>
          /\ pendingRequests' = pendingRequests
          /\ \A i \in DOMAIN store :
                (handleWithdrawalRequest(i, FirstSnapshot))'
                    = handleWithdrawalRequest(i, FirstSnapshot)

\* C39: a snapshot accepted by the custodian as pending, or by a node into
\* its store, is fixed at acceptance: what its caller assigns to the State
\* afterwards changes neither the amount Withdraw releases nor the height a
\* node compares and challenges with
C39_FixedAtAcceptance == [][C39Step]_vars

(***************************************************************************)
(* C40.  The Registry's list of active operators.                          *)
(***************************************************************************)
\* function totalActiveNodes()
totalActiveNodes == Len(activeNodes)

\* the operators that are registered and have not asked to unregister
ActiveOperators == {o \in Operators : nodes[o].amount > 0 /\ nodes[o].unlockAt = 0}

\* C40: after any sequence of register, unregister and withdraw, activeNodes
\* holds each active operator (registered, unlockAt = 0) exactly once and no
\* other address, the record of the operator at position i has index i
\* (positions counted from 0), and totalActiveNodes is the number of active
\* operators
C40_ActiveListInvariant ==
    /\ Range(activeNodes) = ActiveOperators
    /\ \A i, j \in DOMAIN activeNodes : activeNodes[i] = activeNodes[j] => i = j
    /\ \A i \in DOMAIN activeNodes : nodes[activeNodes[i]].index = i - 1
    /\ totalActiveNodes = Cardinality(ActiveOperators)

\* an operator that was not the last of the list has unregistered, so the
\* last one was moved into its place; operators remain active
C40_Witness ==
    /\ last.op = "Registry.unregister" /\ last.err = Nil
    /\ nodes[last.wallet].index + 1 <= Len(activeNodes)

====
